---- MODULE Spec2Model ----
(***************************************************************************)
(* A model of the automated trading engine of jaimo012/tarde:              *)
(*   - the file based run lock of src/src/main.py (SpecLock),              *)
(*   - the engine AutoTradingSystem with its broker client, order          *)
(*     manager, position manager and trading strategy (Spec),              *)
(*   - single calls of the strategy's, the order manager's and the         *)
(*     position manager's methods on drawn accounts and inputs (SpecCalls),*)
(*   - the client's rate limiter called over a midnight (SpecLimiter),     *)
(*   - single calls of the client's request loop and operations on drawn   *)
(*     limiter and token states (SpecClient).                              *)
(* Time is counted in minutes since a Monday 00:00 (exchange local time),  *)
(* the lock's clock in seconds, the limiter's in quarters of a second.     *)
(***************************************************************************)
EXTENDS Integers, Sequences, FiniteSets, TLC

VARIABLES
    \* ---- the run lock (src/src/main.py) ----
    lockExists,     \* os.path.exists(lock_file)
    lockMtime,      \* os.path.getmtime(lock_file), seconds
    lockOwner,      \* the pid written into the lock file
    lclock,         \* time.time(), seconds
    lticks,         \* how often the lock's clock advanced
    lpc,            \* each process invocation's position in main()
    lage,           \* each process's local file_age
    \* ---- the engine (src/src/trading) and its collaborators ----
    clock,              \* datetime.now(), minutes
    trading_enabled,    \* AutoTradingSystem.trading_enabled
    access_token,       \* KiwoomAPIClient.access_token is held
    token_expires_at,   \* KiwoomAPIClient.token_expires_at
    positions,          \* the broker: the account's holdings, in the order it returns them
    orders,             \* the broker: the orders it accepted, by order number
    trades,             \* the persistence collaborator: the rows of the trade sheet
    last,               \* the call of the engine that has just returned: its inputs, result and effects
    tokenFailed,        \* history: some token request has failed
    staleTicks,         \* history: consecutive position ticks on a 10 day old position without a market sell
    \* ---- the client's rate limiter (src/src/trading/kiwoom_client.py) ----
    rate_limiter,       \* the APIRateLimiter: call_timestamps, daily_call_count, last_reset_date
    rclock,             \* datetime.now() as the limiter reads it, quarters of a second
    admitted            \* history: the times at which wait_if_needed returned normally

lockVars == <<lockExists, lockMtime, lockOwner, lclock, lticks, lpc, lage>>

engineVars == <<clock, trading_enabled, access_token, token_expires_at,
                positions, orders, trades, last, tokenFailed, staleTicks>>

limiterVars == <<rate_limiter, rclock, admitted>>

vars == <<lockExists, lockMtime, lockOwner, lclock, lticks, lpc, lage,
          clock, trading_enabled, access_token, token_expires_at,
          positions, orders, trades, last, tokenFailed, staleTicks,
          rate_limiter, rclock, admitted>>

(***************************************************************************)
(* Bounds                                                                  *)
(***************************************************************************)
NumProcs == 2
MaxLockTicks == 3
\* the ceilings the rate limiter is constructed with
max_calls_per_second == 2
max_calls_per_day == 3

(***************************************************************************)
(* Values                                                                  *)
(***************************************************************************)
\* Python's None, a raised exception, a list
None == [kind |-> "None"]
Exc(t) == [kind |-> "exc", type |-> t]
List(s) == [kind |-> "list", items |-> s]

\* token_expires_at is None
NoTime == -1

\* one effect of a call of the engine, in the order of occurrence
Ev(k, what, stock, qty, price, ok) ==
    [kind |-> k, what |-> what, stock |-> stock, qty |-> qty, price |-> price, ok |-> ok]

NoStock == <<>>

\* the record of a call that has not happened
NoCall == [op |-> "none", ret |-> None, events |-> <<>>, inp |-> None,
           pre |-> [held |-> {}, open_buy |-> FALSE]]

\* the engine's variables while only the run lock is looked at
EngineIdle ==
    /\ clock = 0
    /\ trading_enabled = FALSE
    /\ access_token = FALSE
    /\ token_expires_at = NoTime
    /\ positions = <<>>
    /\ orders = <<>>
    /\ trades = <<>>
    /\ last = NoCall
    /\ tokenFailed = FALSE
    /\ staleTicks = 0

\* the limiter's variables while the limiter is not looked at
LimiterIdle ==
    /\ rate_limiter = [call_timestamps |-> <<>>, daily_call_count |-> 0, last_reset_date |-> 0]
    /\ rclock = 0
    /\ admitted = <<>>

(***************************************************************************)
(* The run lock: acquire_lock, main, release_lock                          *)
(***************************************************************************)
Procs == 1..NumProcs

\* if file_age > 600 (main.py:709)
LockStaleSeconds == 600

\* the steps by which the lock's clock advances
LockTickSteps == {1, LockStaleSeconds}

LockInit ==
    /\ lockExists = FALSE
    /\ lockMtime = 0
    /\ lockOwner = 0
    /\ lclock = 0
    /\ lticks = 0
    /\ lpc = [p \in Procs |-> "idle"]
    /\ lage = [p \in Procs |-> 0]
    /\ EngineIdle
    /\ LimiterIdle

\* main(): the invocation starts and calls acquire_lock(lock_file)
main_start(p) ==
    /\ lpc[p] = "idle"
    /\ lpc' = [lpc EXCEPT ![p] = "acq_exists"]
    /\ UNCHANGED <<lockExists, lockMtime, lockOwner, lclock, lticks, lage>>
    /\ UNCHANGED engineVars
    /\ UNCHANGED limiterVars

\* acquire_lock: if os.path.exists(lock_file)
acquire_lock_exists(p) ==
    /\ lpc[p] = "acq_exists"
    /\ lpc' = [lpc EXCEPT ![p] = IF lockExists THEN "acq_mtime" ELSE "acq_write"]
    /\ UNCHANGED <<lockExists, lockMtime, lockOwner, lclock, lticks, lage>>
    /\ UNCHANGED engineVars
    /\ UNCHANGED limiterVars

\* acquire_lock: file_age = time.time() - os.path.getmtime(lock_file);
\* a lock at most 600 seconds old makes it return False, and so does the
\* exception of getmtime on a file removed in between
acquire_lock_age(p) ==
    /\ lpc[p] = "acq_mtime"
    /\ IF lockExists
         THEN /\ lage' = [lage EXCEPT ![p] = lclock - lockMtime]
              /\ lpc' = [lpc EXCEPT ![p] =
                           IF lclock - lockMtime > LockStaleSeconds
                             THEN "acq_remove" ELSE "failed"]
         ELSE /\ lage' = lage
              /\ lpc' = [lpc EXCEPT ![p] = "failed"]
    /\ UNCHANGED <<lockExists, lockMtime, lockOwner, lclock, lticks>>
    /\ UNCHANGED engineVars
    /\ UNCHANGED limiterVars

\* acquire_lock: os.remove(lock_file) of a stale lock; it raises when the
\* file is gone, and acquire_lock then returns False
acquire_lock_remove(p) ==
    /\ lpc[p] = "acq_remove"
    /\ IF lockExists
         THEN /\ lockExists' = FALSE
              /\ lockOwner' = 0
              /\ lpc' = [lpc EXCEPT ![p] = "acq_write"]
         ELSE /\ UNCHANGED <<lockExists, lockOwner>>
              /\ lpc' = [lpc EXCEPT ![p] = "failed"]
    /\ UNCHANGED <<lockMtime, lclock, lticks, lage>>
    /\ UNCHANGED engineVars
    /\ UNCHANGED limiterVars

\* acquire_lock: with open(lock_file, 'w') as f: f.write(pid ...); return True
acquire_lock_write(p) ==
    /\ lpc[p] = "acq_write"
    /\ lockExists' = TRUE
    /\ lockMtime' = lclock
    /\ lockOwner' = p
    /\ lpc' = [lpc EXCEPT ![p] = "run"]
    /\ UNCHANGED <<lclock, lticks, lage>>
    /\ UNCHANGED engineVars
    /\ UNCHANGED limiterVars

\* main(): system.run() returns, the finally clause calls release_lock
main_run_done(p) ==
    /\ lpc[p] = "run"
    /\ lpc' = [lpc EXCEPT ![p] = "rel_exists"]
    /\ UNCHANGED <<lockExists, lockMtime, lockOwner, lclock, lticks, lage>>
    /\ UNCHANGED engineVars
    /\ UNCHANGED limiterVars

\* release_lock: if os.path.exists(lock_file)
release_lock_exists(p) ==
    /\ lpc[p] = "rel_exists"
    /\ lpc' = [lpc EXCEPT ![p] = IF lockExists THEN "rel_remove" ELSE "exit"]
    /\ UNCHANGED <<lockExists, lockMtime, lockOwner, lclock, lticks, lage>>
    /\ UNCHANGED engineVars
    /\ UNCHANGED limiterVars

\* release_lock: os.remove(lock_file), whoever wrote the file; its exception
\* on a file that is gone is caught
release_lock_remove(p) ==
    /\ lpc[p] = "rel_remove"
    /\ lockExists' = FALSE
    /\ lockOwner' = IF lockExists THEN 0 ELSE lockOwner
    /\ lpc' = [lpc EXCEPT ![p] = "exit"]
    /\ UNCHANGED <<lockMtime, lclock, lticks, lage>>
    /\ UNCHANGED engineVars
    /\ UNCHANGED limiterVars

\* time passes
LockTick ==
    /\ lticks < MaxLockTicks
    /\ \E d \in LockTickSteps : lclock' = lclock + d
    /\ lticks' = lticks + 1
    /\ UNCHANGED <<lockExists, lockMtime, lockOwner, lpc, lage>>
    /\ UNCHANGED engineVars
    /\ UNCHANGED limiterVars

LockNext ==
    \/ \E p \in Procs : main_start(p)
    \/ \E p \in Procs : acquire_lock_exists(p)
    \/ \E p \in Procs : acquire_lock_age(p)
    \/ \E p \in Procs : acquire_lock_remove(p)
    \/ \E p \in Procs : acquire_lock_write(p)
    \/ \E p \in Procs : main_run_done(p)
    \/ \E p \in Procs : release_lock_exists(p)
    \/ \E p \in Procs : release_lock_remove(p)
    \/ LockTick

SpecLock == LockInit /\ [][LockNext]_vars

\* the lock file: whether it is there, its mtime and who wrote it
LockFile(exists, mtime, owner) == [exists |-> exists, mtime |-> mtime, owner |-> owner]

\* a call of os.remove or open(lock_file, 'w'), as an effect
FileOp(what) == [kind |-> "file", what |-> what, ok |-> TRUE]

\* an acquire_lock that takes a lock of exactly 600 seconds for stale
acquire_lock_at_600(file, now, pid) ==
    IF file.exists /\ ~(now - file.mtime >= LockStaleSeconds)
      THEN [file |-> file, r |-> FALSE, events |-> <<>>]
      ELSE [file |-> LockFile(TRUE, now, pid), r |-> TRUE,
            events |-> IF file.exists THEN <<FileOp("remove"), FileOp("write")>>
                                      ELSE <<FileOp("write")>>]

\* acquire_lock run from its first line to its return with no other process
\* in between: the file it leaves, what it returns, its file operations
acquire_lock(file, now, pid) ==
    IF file.exists /\ ~(now - file.mtime > LockStaleSeconds)
      THEN [file |-> file, r |-> FALSE, events |-> <<>>]
      ELSE [file |-> LockFile(TRUE, now, pid), r |-> TRUE,
            events |-> IF file.exists THEN <<FileOp("remove"), FileOp("write")>>
                                      ELSE <<FileOp("write")>>]

(***************************************************************************)
(* Time and the market schedule (src/src/utils/market_schedule.py)         *)
(***************************************************************************)
MinutesPerDay == 24 * 60
Day(t) == t \div MinutesPerDay
Tod(t) == t % MinutesPerDay
At(d, h, m) == d * MinutesPerDay + h * 60 + m

\* the days and the times of day the clock takes: a Monday, a holiday
\* Tuesday, a Saturday, the Monday after, the Thursdays 10 and 17 days on
DaySamples == {0, 1, 5, 7, 10}
HolidayDays == {1}
TodSamples == {8 * 60 + 29, 8 * 60 + 30, 8 * 60 + 59, 9 * 60,
               15 * 60 + 20, 15 * 60 + 21, 15 * 60 + 30, 15 * 60 + 31}
ClockSamples == {d * MinutesPerDay + m : d \in DaySamples, m \in TodSamples}

\* check_date.weekday(): Monday is 0
weekday(d) == d % 7

\* KoreanMarketSchedule._is_holiday
_is_holiday(d) == d \in HolidayDays

\* KoreanMarketSchedule.is_trading_day
is_trading_day(d) ==
    IF weekday(d) >= 5 THEN FALSE ELSE ~_is_holiday(d)

\* KoreanMarketSchedule.is_market_open_at_time, is_market_open_now, is_market_open
is_market_open(t) ==
    IF weekday(Day(t)) >= 5 THEN FALSE
    ELSE IF _is_holiday(Day(t)) THEN FALSE
    ELSE IF ~(8 * 60 + 30 <= Tod(t) /\ Tod(t) <= 15 * 60 + 30) THEN FALSE
    ELSE TRUE

\* is_trading_hours(allow_buy)
is_trading_hours(t, allow_buy) ==
    IF ~is_trading_day(Day(t)) THEN FALSE
    ELSE IF allow_buy
           THEN 9 * 60 <= Tod(t) /\ Tod(t) <= 15 * 60 + 20
           ELSE 9 * 60 <= Tod(t) /\ Tod(t) <= 15 * 60 + 30

(***************************************************************************)
(* The broker (environment): its account and order book                   *)
(***************************************************************************)
\* stock codes as the sequences of their characters
Samsung == <<"0", "0", "5", "9", "3", "0">>
Hynix == <<"0", "0", "0", "6", "6", "0">>
BadCode == <<"A", "0", "5", "9", "3">>
StockCodes == {Samsung, Hynix}
Digits == {"0", "1", "2", "3", "4", "5", "6", "7", "8", "9"}

\* current prices the broker reports of a holding, deposits it reports
CurrentPriceSamples == {47000, 48200}
BalanceSamples == {5000, 20000, 500000}

\* the broker's token lives a day
TokenLifetime == 24 * 60

\* the holdings with a nonzero quantity
HeldItems(pos) == SelectSeq(pos, LAMBDA h : h.quantity > 0)

\* a fill of qty shares of a buy order at price p: the holding grows, its
\* average price and fill time are those of the first fill
BuyFilled(pos, code, qty, p, t) ==
    IF \E i \in 1..Len(pos) : pos[i].stock_code = code
      THEN [i \in 1..Len(pos) |->
              IF pos[i].stock_code = code
                THEN IF pos[i].quantity = 0
                       THEN [pos[i] EXCEPT !.quantity = qty, !.avg_price = p, !.fill_time = t]
                       ELSE [pos[i] EXCEPT !.quantity = @ + qty]
                ELSE pos[i]]
      ELSE Append(pos, [stock_code |-> code, quantity |-> qty, avg_price |-> p, fill_time |-> t])

\* a fill of a sell order: the holding shrinks (a sold out holding stays
\* listed with quantity 0)
SellFilled(pos, code, qty) ==
    [i \in 1..Len(pos) |->
        IF pos[i].stock_code = code THEN [pos[i] EXCEPT !.quantity = @ - qty] ELSE pos[i]]

HeldQuantity(pos, code) ==
    IF \E i \in 1..Len(pos) : pos[i].stock_code = code
      THEN (CHOOSE h \in {pos[i] : i \in 1..Len(pos)} : h.stock_code = code).quantity
      ELSE 0

(***************************************************************************)
(* The broker client (src/src/trading/kiwoom_client.py)                    *)
(***************************************************************************)
\* the state a call reads and writes, as one record
World == [now |-> clock, access_token |-> access_token,
          token_expires_at |-> token_expires_at, positions |-> positions,
          orders |-> orders, trades |-> trades, events |-> <<>>,
          tokenFailed |-> tokenFailed]

\* a call's outcome: the state it leaves and what it returns
Out(w, r) == [w |-> w, r |-> r]
Emit(w, e) == [w EXCEPT !.events = Append(@, e)]

\* what one HTTP attempt can come to
HttpOutcomes == {"200", "4xx", "5xx", "timeout", "error"}
Response(status) == [kind |-> "response", status |-> status]

\* a loop of four attempts
max_retries_four == 3 + 1

\* max_retries = 3
max_retries == 3

\* KiwoomAPIClient._request_with_retry from attempt a on: the response it
\* returns or the exception it raises, and the attempts made
RECURSIVE _request_with_retry(_)
_request_with_retry(attempt) ==
    UNION { CASE o \in {"200", "4xx"} ->
                   {[r |-> Response(o), attempts |-> attempt + 1]}
              [] o = "5xx" ->
                   IF attempt + 1 < max_retries
                     THEN _request_with_retry(attempt + 1)
                     ELSE {[r |-> Exc("Exception"), attempts |-> attempt + 1]}
              [] o = "timeout" ->
                   IF attempt < max_retries - 1
                     THEN _request_with_retry(attempt + 1)
                     ELSE {[r |-> Exc("Timeout"), attempts |-> attempt + 1]}
              [] OTHER ->
                   IF attempt < max_retries - 1
                     THEN _request_with_retry(attempt + 1)
                     ELSE {[r |-> Exc("RequestException"), attempts |-> attempt + 1]}
          : o \in HttpOutcomes }

\* the responses and exceptions a request ends in
RequestResults == {x.r : x \in _request_with_retry(0)}

\* the body of a 200 response: return_code 0 or not
BodyOk == {TRUE, FALSE}

\* a request is answered when it ends in a 200 response with return_code 0;
\* every other end (an exception, another status, another return_code)
\* makes the method that sent it return None
Answered == {resp.kind = "response" /\ resp.status = "200" /\ body
             : resp \in RequestResults, body \in BodyOk}

\* KiwoomAPIClient.authenticate: one token request, outside the retry policy
authenticate(w) ==
    LET failed == Out(Emit([w EXCEPT !.tokenFailed = TRUE],
                           Ev("token", "authenticate", NoStock, 0, 0, FALSE)), FALSE)
        \* expires_dt given (less one hour), or absent (23 hours from now)
        granted(exp) == Out(Emit([w EXCEPT !.access_token = TRUE, !.token_expires_at = exp],
                                 Ev("token", "authenticate", NoStock, 0, 0, TRUE)), TRUE)
    IN  {failed, granted(w.now + TokenLifetime - 60), granted(w.now + 23 * 60)}

\* an _ensure_authenticated that renews the token only once the time is
\* past token_expires_at
_ensure_authenticated_late(w) ==
    IF ~w.access_token \/ w.token_expires_at = NoTime
      THEN {IF a.r THEN Out(a.w, None) ELSE Out(a.w, Exc("Exception")) : a \in authenticate(w)}
      ELSE IF w.now > w.token_expires_at
             THEN {IF a.r THEN Out(a.w, None) ELSE Out(a.w, Exc("Exception")) : a \in authenticate(w)}
             ELSE {Out(w, None)}

\* KiwoomAPIClient._ensure_authenticated: returns None or raises
_ensure_authenticated(w) ==
    IF ~w.access_token \/ w.token_expires_at = NoTime
      THEN {IF a.r THEN Out(a.w, None) ELSE Out(a.w, Exc("Exception")) : a \in authenticate(w)}
      ELSE IF w.now >= w.token_expires_at
             THEN {IF a.r THEN Out(a.w, None) ELSE Out(a.w, Exc("Exception")) : a \in authenticate(w)}
             ELSE {Out(w, None)}

\* KiwoomAPIClient.get_balance: the deposit, or None
get_balance(w) ==
    UNION { IF a.r # None THEN {Out(a.w, None)}
            ELSE UNION { IF ~answered
                           THEN {Out(Emit(a.w, Ev("api", "get_balance", NoStock, 0, 0, FALSE)), None)}
                           ELSE {Out(Emit(a.w, Ev("api", "get_balance", NoStock, 0, d, TRUE)),
                                     [kind |-> "balance", deposit |-> d, available_amount |-> d])
                                 : d \in BalanceSamples}
                       : answered \in Answered }
          : a \in _ensure_authenticated(w) }

\* the entry of day_bal_rt for a holding, as get_positions parses it
PositionOf(h, cur) ==
    [stock_code |-> h.stock_code, quantity |-> h.quantity,
     avg_price |-> h.avg_price, current_price |-> cur]

\* KiwoomAPIClient.get_positions: the holdings with a quantity above 0, or None
get_positions(w) ==
    UNION { IF a.r # None THEN {Out(a.w, None)}
            ELSE UNION { IF ~answered
                           THEN {Out(Emit(a.w, Ev("api", "get_positions", NoStock, 0, 0, FALSE)), None)}
                           ELSE {Out(Emit(a.w, Ev("api", "get_positions", NoStock, 0, 0, TRUE)),
                                     List([i \in 1..Len(HeldItems(a.w.positions)) |->
                                             PositionOf(HeldItems(a.w.positions)[i], cur)]))
                                 : cur \in CurrentPriceSamples}
                       : answered \in Answered }
          : a \in _ensure_authenticated(w) }

\* a check of the code's length alone
ValidCode_by_length(code) == Len(code) = 6

\* len(stock_code) == 6 and stock_code.isdigit()
ValidCode(code) == Len(code) = 6 /\ \A i \in 1..Len(code) : code[i] \in Digits

\* the broker's quote of a stock
QuoteOf(code) == IF code = Samsung THEN 48200 ELSE 47000

\* KiwoomAPIClient.get_current_price: the quote, or None; the answer is
\* read by its rt_cd
get_current_price(w, stock_code) ==
    IF ~ValidCode(stock_code) THEN {Out(w, None)}
    ELSE
    UNION { IF a.r # None THEN {Out(a.w, None)}
            ELSE { IF ~answered
                     THEN Out(Emit(a.w, Ev("api", "get_current_price", stock_code, 0, 0, FALSE)), None)
                     ELSE Out(Emit(a.w, Ev("api", "get_current_price", stock_code, 0,
                                           QuoteOf(stock_code), TRUE)),
                              [kind |-> "price", current_price |-> QuoteOf(stock_code)])
                   : answered \in Answered }
          : a \in _ensure_authenticated(w) }

\* what is left to fill of the open sell orders of a stock
RECURSIVE OpenSellQuantity(_, _)
OpenSellQuantity(ords, code) ==
    IF ords = <<>> THEN 0
    ELSE (IF Head(ords).side = "sell" /\ Head(ords).stock_code = code
            THEN Head(ords).quantity - Head(ords).filled ELSE 0)
         + OpenSellQuantity(Tail(ords), code)

\* the broker takes a buy order as it comes, a sell order for shares that
\* are held and not yet offered
BrokerTakes(w, side, code, quantity) ==
    side = "buy" \/ HeldQuantity(w.positions, code) - OpenSellQuantity(w.orders, code) >= quantity

\* how much of an accepted order is filled before the call returns: a
\* market order nothing, one share or all of it, a limit order nothing
FillsAtOnce(style, quantity) ==
    IF style = "market" THEN {0, quantity} \cup (IF quantity > 1 THEN {1} ELSE {}) ELSE {0}

\* the broker books an order it accepted, filled by f
Booked(w, side, style, code, quantity, price, f) ==
    [w EXCEPT !.orders = Append(@, [side |-> side, style |-> style, stock_code |-> code,
                                    quantity |-> quantity, price |-> price, filled |-> f]),
              !.positions = IF f = 0 THEN @
                            ELSE IF side = "buy" THEN BuyFilled(@, code, f, QuoteOf(code), w.now)
                            ELSE SellFilled(@, code, f),
              !.events = IF f = 0 THEN @
                         ELSE Append(@, Ev("fill", side, code, f, QuoteOf(code), f = quantity))]

OrderTypes == {"buy_market", "buy_limit", "sell_market", "sell_limit"}

\* KiwoomAPIClient.place_order: the order handle (order_number, exchange),
\* or None; price 0 stands for no price
place_order(w, stock_code, order_type, quantity, price) ==
    IF ~ValidCode(stock_code) THEN {Out(w, None)}
    ELSE IF quantity <= 0 THEN {Out(w, None)}
    ELSE IF order_type \notin OrderTypes THEN {Out(w, None)}
    ELSE IF order_type \in {"buy_limit", "sell_limit"} /\ price = 0 THEN {Out(w, None)}
    ELSE
    LET side == IF order_type \in {"buy_market", "buy_limit"} THEN "buy" ELSE "sell"
        style == IF order_type \in {"buy_market", "sell_market"} THEN "market" ELSE "limit"
        ord_uv == IF style = "market" THEN 0 ELSE price
        \* no answer from the broker; the broker's refusal (return_code not 0)
        lost(v) == Out(Emit(v, Ev("lost", order_type, stock_code, quantity, ord_uv, FALSE)), None)
        refused(v) == Out(Emit(v, Ev("order", order_type, stock_code, quantity, ord_uv, FALSE)), None)
        accepted(v, f) ==
            Out(Booked(Emit(v, Ev("order", order_type, stock_code, quantity, ord_uv, TRUE)),
                       side, style, stock_code, quantity, ord_uv, f),
                [kind |-> "order_result", order_number |-> Len(v.orders) + 1, exchange |-> "KRX"])
    IN  UNION { IF a.r # None THEN {Out(a.w, None)}
                ELSE UNION { IF resp.kind = "exc" \/ resp.status # "200"
                               THEN {lost(a.w)}
                               ELSE {refused(a.w)} \cup
                                    (IF BrokerTakes(a.w, side, stock_code, quantity)
                                       THEN {accepted(a.w, f) : f \in FillsAtOnce(style, quantity)}
                                       ELSE {})
                           : resp \in RequestResults }
              : a \in _ensure_authenticated(w) }

\* the keyword arguments get_order_status takes, and the methods the client has
get_order_status_params == {"order_number"}
kiwoom_methods == {"authenticate", "get_balance", "get_positions", "get_current_price",
                   "place_order", "get_order_status"}

\* KiwoomAPIClient.get_order_status: not implemented, an empty list
get_order_status(w, order_number) == {Out(w, List(<<>>))}

(***************************************************************************)
(* The rate limiter and the request loop with its waits                    *)
(* (src/src/trading/kiwoom_client.py)                                      *)
(***************************************************************************)
\* the limiter's clock counts quarters of a second
TicksPerSecond == 4
TicksPerMinute == 60 * TicksPerSecond
TicksPerDay == 24 * 60 * TicksPerMinute

\* now.date()
Date(t) == t \div TicksPerDay

\* time.sleep(d) returns after d, or a quarter of a second later
Oversleep == {0, 1}

\* APIRateLimiter.__init__ at time now
APIRateLimiter(now) ==
    [call_timestamps |-> <<>>, daily_call_count |-> 0, last_reset_date |-> Date(now)]

\* the outcome of a call of the limiter: the limiter and the time it leaves,
\* what it returns or raises, how long it slept
Waited(rl, now, r, slept) == [rl |-> rl, now |-> now, r |-> r, slept |-> slept]

\* a limiter that at the daily ceiling sleeps into the next date
daily_limit_sleeps(rl, now) ==
    LET midnight == (Date(now) + 1) * TicksPerDay
    IN  {Waited([rl EXCEPT !.call_timestamps = <<midnight>>, !.daily_call_count = 1,
                           !.last_reset_date = Date(midnight)],
                midnight, None, midnight - now)}

\* the daily ceiling is reached: raise Exception(error_msg)
daily_limit_exceeded(rl, now) == {Waited(rl, now, Exc("Exception"), 0)}

\* a limiter that never waits
wait_time_none(kept, now) == 0

\* wait_time = 1.0 - (now - self.call_timestamps[0]) when the window is full
wait_time(kept, now) ==
    IF Len(kept) >= max_calls_per_second THEN TicksPerSecond - (now - kept[1]) ELSE 0

\* APIRateLimiter.wait_if_needed, called at time now
wait_if_needed(rl, now) ==
    LET reset == IF Date(now) # rl.last_reset_date
                   THEN [rl EXCEPT !.daily_call_count = 0, !.last_reset_date = Date(now)]
                   ELSE rl
    IN  IF reset.daily_call_count >= max_calls_per_day
          THEN daily_limit_exceeded(reset, now)
          ELSE
          LET one_second_ago == now - TicksPerSecond
              kept == SelectSeq(reset.call_timestamps, LAMBDA ts : ts > one_second_ago)
              sleeps == IF wait_time(kept, now) > 0
                          THEN {wait_time(kept, now) + e : e \in Oversleep}
                          ELSE {0}
          IN  { Waited([reset EXCEPT !.call_timestamps = Append(kept, now + s),
                                     !.daily_call_count = @ + 1],
                       now + s, None, s)
                : s \in sleeps }

\* the state a call of the client reads and writes, the limiter included
ClientWorld == [now |-> clock, access_token |-> access_token,
                token_expires_at |-> token_expires_at, positions |-> positions,
                orders |-> orders, trades |-> trades, events |-> <<>>,
                tokenFailed |-> tokenFailed,
                rate_limiter |-> rate_limiter, rnow |-> rclock, admitted |-> admitted]

\* a call of wait_if_needed and one request of the session, as effects
WaitEv(ok, slept) == [kind |-> "wait", what |-> "wait_if_needed", ok |-> ok, slept |-> slept]
Http(attempt, outcome) ==
    [kind |-> "http", what |-> "request", attempt |-> attempt, outcome |-> outcome,
     ok |-> outcome = "200"]

\* backoff_delays = [0.5, 1.0, 2.0]
backoff_delays == <<TicksPerSecond \div 2, TicksPerSecond, 2 * TicksPerSecond>>

\* time.sleep(d)
Sleep(w, d) == {[w EXCEPT !.rnow = @ + d + e] : e \in Oversleep}

\* the loop of KiwoomAPIClient._request_with_retry from attempt a on, with
\* the limiter's wait before each request: the response it returns or the
\* exception it raises.  The limiter's Exception is neither a Timeout nor a
\* RequestException and leaves the loop at once.
RECURSIVE _request_with_retry_from(_, _)
_request_with_retry_from(w, attempt) ==
    IF attempt >= max_retries THEN {Out(w, Exc("Exception"))}
    ELSE
    UNION { IF wt.r # None
              THEN {Out(Emit([w EXCEPT !.rate_limiter = wt.rl], WaitEv(FALSE, 0)), wt.r)}
              ELSE
              LET waited == Emit([w EXCEPT !.rate_limiter = wt.rl, !.rnow = wt.now,
                                           !.admitted = Append(@, wt.now)],
                                 WaitEv(TRUE, wt.slept))
              IN  UNION { LET sent == Emit(waited, Http(attempt + 1, o))
                              again == IF attempt < max_retries - 1
                                         THEN UNION { _request_with_retry_from(v, attempt + 1)
                                                      : v \in Sleep(sent, backoff_delays[attempt + 1]) }
                                         ELSE {}
                          IN  CASE o \in {"200", "4xx"} -> {Out(sent, Response(o))}
                                [] o = "5xx" ->
                                     IF attempt < max_retries - 1
                                       THEN again
                                       ELSE _request_with_retry_from(sent, attempt + 1)
                                [] o = "timeout" ->
                                     IF attempt < max_retries - 1
                                       THEN again ELSE {Out(sent, Exc("Timeout"))}
                                [] OTHER ->
                                     IF attempt < max_retries - 1
                                       THEN again ELSE {Out(sent, Exc("RequestException"))}
                        : o \in HttpOutcomes }
          : wt \in wait_if_needed(w.rate_limiter, w.rnow) }

\* the operations of the client that query the broker
ApiOperations == {"get_balance", "get_positions", "get_current_price", "place_order"}

\* one of get_balance, get_positions, get_current_price, place_order, as
\* far as its requests go: _ensure_authenticated, one _request_with_retry,
\* the answer when the status is 200 and the return code 0, None otherwise
\* and on every exception
api_operation(w, op) ==
    UNION { IF a.r # None THEN {Out(a.w, None)}
            ELSE UNION { IF q.r.kind = "exc" THEN {Out(q.w, None)}
                         ELSE IF q.r.status # "200" THEN {Out(q.w, None)}
                         ELSE {IF body THEN Out(q.w, [kind |-> "answer", op |-> op])
                                       ELSE Out(q.w, None) : body \in BodyOk}
                       : q \in _request_with_retry_from(a.w, 0) }
          : a \in _ensure_authenticated(w) }

\* KiwoomAPIClient.get_current_price as far as its requests go: the code is
\* checked before anything else
get_current_price_requests(w, stock_code) ==
    IF ~ValidCode(stock_code) THEN {Out(w, None)}
    ELSE api_operation(w, "get_current_price")

\* the return_code of a 200 answer, as an effect
Body(ok) == [kind |-> "body", what |-> "return_code", ok |-> ok]

\* KiwoomAPIClient.get_positions with the limiter's waits: the holdings
\* with a quantity above 0, None when the token, the limiter, the request
\* or the return code fails
get_positions_requests(w) ==
    UNION { IF a.r # None THEN {Out(a.w, None)}
            ELSE UNION { IF q.r.kind = "exc" THEN {Out(q.w, None)}
                         ELSE IF q.r.status # "200" THEN {Out(q.w, None)}
                         ELSE { IF body
                                  THEN Out(Emit(q.w, Body(TRUE)),
                                           List([i \in 1..Len(HeldItems(q.w.positions)) |->
                                                   PositionOf(HeldItems(q.w.positions)[i],
                                                              QuoteOf(HeldItems(q.w.positions)[i].stock_code))]))
                                  ELSE Out(Emit(q.w, Body(FALSE)), None)
                                : body \in BodyOk }
                       : q \in _request_with_retry_from(a.w, 0) }
          : a \in _ensure_authenticated(w) }

\* PositionManager.get_current_position over it
get_current_position_requests(w) ==
    { IF p.r = None THEN Out(p.w, None)
      ELSE IF Len(p.r.items) = 0 THEN Out(p.w, None)
      ELSE Out(p.w, [kind |-> "position"] @@ p.r.items[1])
      : p \in get_positions_requests(w) }

\* the requests of a call that ended in a timeout, a transport error or a
\* 5xx answer: each of them may have reached the broker
Unanswered(evs) ==
    {i \in 1..Len(evs) : evs[i].kind = "http" /\ evs[i].outcome \in {"5xx", "timeout", "error"}}

\* the broker books n orders whose answers never arrived
RECURSIVE BookedUnseen(_, _, _, _, _, _, _)
BookedUnseen(w, n, side, style, code, quantity, price) ==
    IF n = 0 \/ ~BrokerTakes(w, side, code, quantity) THEN w
    ELSE BookedUnseen(Booked(Emit(w, Ev("unseen", side, code, quantity, price, TRUE)),
                             side, style, code, quantity, price, 0),
                      n - 1, side, style, code, quantity, price)

\* KiwoomAPIClient.place_order with the requests of its retry loop: every
\* request that was sent carries the order, and the broker may have booked
\* the order of a request whose answer did not arrive
place_order_requests(w, stock_code, order_type, quantity, price) ==
    IF ~ValidCode(stock_code) THEN {Out(w, None)}
    ELSE IF quantity <= 0 THEN {Out(w, None)}
    ELSE IF order_type \notin OrderTypes THEN {Out(w, None)}
    ELSE IF order_type \in {"buy_limit", "sell_limit"} /\ price = 0 THEN {Out(w, None)}
    ELSE
    LET side == IF order_type \in {"buy_market", "buy_limit"} THEN "buy" ELSE "sell"
        style == IF order_type \in {"buy_market", "sell_market"} THEN "market" ELSE "limit"
        ord_uv == IF style = "market" THEN 0 ELSE price
        refused(v) == Out(Emit(v, Ev("order", order_type, stock_code, quantity, ord_uv, FALSE)), None)
        accepted(v) ==
            Out(Booked(Emit(v, Ev("order", order_type, stock_code, quantity, ord_uv, TRUE)),
                       side, style, stock_code, quantity, ord_uv, 0),
                [kind |-> "order_result", order_number |-> Len(v.orders) + 1, exchange |-> "KRX"])
    IN  UNION { IF a.r # None THEN {Out(a.w, None)}
                ELSE UNION { UNION { LET v == BookedUnseen(q.w, n, side, style, stock_code,
                                                           quantity, ord_uv)
                                     IN  IF q.r.kind = "exc" THEN {Out(v, None)}
                                         ELSE IF q.r.status # "200" THEN {Out(v, None)}
                                         ELSE {refused(v)} \cup
                                              (IF BrokerTakes(v, side, stock_code, quantity)
                                                 THEN {accepted(v)} ELSE {})
                                   : n \in 0..Cardinality(Unanswered(q.w.events)) }
                           : q \in _request_with_retry_from(a.w, 0) }
              : a \in _ensure_authenticated(w) }

(***************************************************************************)
(* The order manager (src/src/trading/order_manager.py)                    *)
(***************************************************************************)
\* COMMISSION_RATE, in 1/100000
COMMISSION_RATE == 18

\* a quantity computed without the commission
_calculate_buy_quantity_no_commission(available_amount, price) == available_amount \div price

\* OrderManager._calculate_buy_quantity, of whole amounts and prices:
\* order_amount = available_amount / (1 + COMMISSION_RATE), whose whole part
\* is available_amount less the commission share rounded up, and
\* quantity = order_amount / price rounded down
_calculate_buy_quantity(available_amount, price) ==
    LET order_amount == available_amount
                          - (available_amount * COMMISSION_RATE + 100000 + COMMISSION_RATE - 1)
                                \div (100000 + COMMISSION_RATE)
    IN  order_amount \div price

\* the tick the price-range table gives a price
tick_size(target_price) ==
    IF target_price < 1000 THEN 1
    ELSE IF target_price < 5000 THEN 5
    ELSE IF target_price < 10000 THEN 10
    ELSE IF target_price < 50000 THEN 50
    ELSE IF target_price < 100000 THEN 100
    ELSE IF target_price < 500000 THEN 500
    ELSE 1000

\* a sell price rounded up to the tick grid
_calculate_sell_price_round_up(buy_price, profit_rate) ==
    LET target_price == buy_price + (buy_price * profit_rate) \div 10000
    IN  ((target_price + tick_size(target_price) - 1) \div tick_size(target_price))
            * tick_size(target_price)

\* OrderManager._calculate_sell_price, of a whole buy_price and a rate in
\* 1/10000: target_price = buy_price * (1 + profit_rate), of which the whole
\* part decides the tick and the quotient rounded down
_calculate_sell_price(buy_price, profit_rate) ==
    LET target_price == buy_price + (buy_price * profit_rate) \div 10000
    IN  (target_price \div tick_size(target_price)) * tick_size(target_price)

\* a balance check that lets every balance through
insufficient_balance_never(available_amount) == FALSE

\* available_amount < Decimal('10000')
insufficient_balance(available_amount) == available_amount < 10000

\* the error_details dict: its step and error_type (every such dict of the
\* order manager also lists possible_causes and a resolution)
ErrorInfo(step, error_type, order_number) ==
    [kind |-> "error_info", step |-> step, error_type |-> error_type, order_number |-> order_number]

\* OrderManager.place_market_buy_order: the order placed, or error_info
place_market_buy_order(w, stock_code) ==
    UNION { IF b.r = None THEN {Out(b.w, ErrorInfo("balance query", "API call failed", 0))}
            ELSE IF insufficient_balance(b.r.available_amount)
              THEN {Out(b.w, ErrorInfo("balance check", "insufficient balance", 0))}
            ELSE
            UNION { IF p.r = None THEN {Out(p.w, ErrorInfo("price query", "price lookup failed", 0))}
                    ELSE
                    LET quantity == _calculate_buy_quantity(b.r.available_amount, p.r.current_price)
                    IN  IF quantity <= 0
                          THEN {Out(p.w, ErrorInfo("quantity", "quantity error", 0))}
                          ELSE { IF o.r = None
                                   THEN Out(o.w, ErrorInfo("API order", "API order failed", 0))
                                   ELSE IF "order_time" \notin DOMAIN o.r
                                     \* order_result['order_time'] raises, the except clause reports
                                     THEN Out(o.w, ErrorInfo("buy order processing", "KeyError", 0))
                                     ELSE Out(o.w, [kind |-> "buy_order", order_number |-> o.r.order_number,
                                                    stock_code |-> stock_code, quantity |-> quantity])
                                 : o \in place_order(p.w, stock_code, "buy_market", quantity, 0) }
                  : p \in get_current_price(b.w, stock_code) }
          : b \in get_balance(w) }

\* a limit sell order at the target price as it is, off the tick grid
place_limit_sell_order_at_target(w, stock_code, quantity, buy_price, profit_rate) ==
    LET sell_price == buy_price + (buy_price * profit_rate) \div 10000
    IN  { IF o.r = None THEN Out(o.w, None)
          ELSE Out(o.w, [kind |-> "sell_order", order_number |-> o.r.order_number,
                         stock_code |-> stock_code, quantity |-> quantity,
                         sell_price |-> sell_price])
          : o \in place_order(w, stock_code, "sell_limit", quantity, sell_price) }

\* OrderManager.place_limit_sell_order: the order placed, or None
place_limit_sell_order(w, stock_code, quantity, buy_price, profit_rate) ==
    LET sell_price == _calculate_sell_price(buy_price, profit_rate)
    IN  { IF o.r = None THEN Out(o.w, None)
          ELSE IF "order_time" \notin DOMAIN o.r
            THEN Out(o.w, None)
            ELSE Out(o.w, [kind |-> "sell_order", order_number |-> o.r.order_number,
                           stock_code |-> stock_code, quantity |-> quantity,
                           sell_price |-> sell_price])
          : o \in place_order(w, stock_code, "sell_limit", quantity, sell_price) }

\* OrderManager.place_market_sell_order: the order placed, or None
place_market_sell_order(w, stock_code, quantity) ==
    { IF o.r = None THEN Out(o.w, None)
      ELSE IF "order_time" \notin DOMAIN o.r
        THEN Out(o.w, None)
        ELSE Out(o.w, [kind |-> "sell_order", order_number |-> o.r.order_number,
                       stock_code |-> stock_code, quantity |-> quantity, sell_price |-> 0])
      : o \in place_order(w, stock_code, "sell_market", quantity, 0) }

\* the default of check_order_execution's max_retries
check_order_execution_max_retries == 3

\* a look at the order's status: the call of get_order_status returns or raises
Poll(w, stock_code, returned) ==
    Emit(w, Ev("poll", "get_order_status", stock_code, 0, 0, returned))

\* OrderManager.check_order_execution from attempt a on: up to max_retries
\* looks at the order's status, None when none of them shows a fill
RECURSIVE check_order_execution_from(_, _, _, _)
check_order_execution_from(w, order_number, stock_code, attempt) ==
    IF attempt >= check_order_execution_max_retries THEN {Out(w, None)}
    ELSE UNION { IF s.r = None \/ s.r.items = <<>>
                   THEN check_order_execution_from(s.w, order_number, stock_code, attempt + 1)
                   ELSE LET order == s.r.items[1]
                        IN  IF order.executed_quantity > 0
                              THEN {Out(s.w, [kind |-> "execution",
                                              executed |-> order.executed_quantity = order.order_quantity,
                                              executed_quantity |-> order.executed_quantity,
                                              executed_price |-> order.executed_price])}
                              ELSE check_order_execution_from(s.w, order_number, stock_code, attempt + 1)
               : s \in get_order_status(Poll(w, stock_code, TRUE), order_number) }

\* a check_order_execution without its except clause
check_order_execution_uncaught(w, order_number, stock_code) ==
    {Out(Poll(w, stock_code, FALSE), Exc("TypeError"))}

\* OrderManager.check_order_execution: the call of get_order_status with a
\* stock_code keyword raises TypeError, which the except clause turns into None
check_order_execution(w, order_number, stock_code) ==
    IF ~({"stock_code", "order_number"} \subseteq get_order_status_params)
      THEN {Out(Poll(w, stock_code, FALSE), None)}
      ELSE check_order_execution_from(w, order_number, stock_code, 0)

\* OrderManager.has_pending_orders: the client has no such method, the
\* AttributeError is caught and the answer is False
has_pending_orders(w, stock_code) ==
    IF "has_pending_orders" \notin kiwoom_methods
      THEN {Out(w, FALSE)}
      ELSE {Out(w, b) : b \in BOOLEAN}

(***************************************************************************)
(* The position manager (src/src/trading/position_manager.py)              *)
(***************************************************************************)
\* a get_current_position that takes the last position listed
get_current_position_last(w) ==
    { IF p.r = None THEN Out(p.w, None)
      ELSE IF Len(p.r.items) = 0 THEN Out(p.w, None)
      ELSE Out(p.w, [kind |-> "position"] @@ p.r.items[Len(p.r.items)])
      : p \in get_positions(w) }

\* PositionManager.get_current_position: the first position, None when the
\* query failed or listed nothing
get_current_position(w) ==
    { IF p.r = None THEN Out(p.w, None)
      ELSE IF Len(p.r.items) = 0 THEN Out(p.w, None)
      ELSE Out(p.w, [kind |-> "position"] @@ p.r.items[1])
      : p \in get_positions(w) }

\* PositionManager.calculate_holding_days: (now - buy_date).days
calculate_holding_days(now, buy_date) == (now - buy_date) \div MinutesPerDay

\* a decision tree whose small-gain window takes in a gain of 0.03
should_sell_by_holding_period_inclusive(now, buy_date, current_price, avg_price) ==
    LET holding_days == (now - buy_date) \div MinutesPerDay
    IN  IF holding_days >= 10
          THEN [should_sell |-> TRUE, sell_type |-> "market", target_price |-> 0]
        ELSE IF holding_days >= 5 /\ current_price >= avg_price
                /\ (current_price - avg_price) * 100 <= 3 * avg_price
          THEN [should_sell |-> TRUE, sell_type |-> "market", target_price |-> 0]
        ELSE IF holding_days >= 5 /\ current_price < avg_price
          THEN [should_sell |-> TRUE, sell_type |-> "limit", target_price |-> avg_price * 99]
        ELSE [should_sell |-> FALSE, sell_type |-> "none", target_price |-> 0]

\* PositionManager.should_sell_by_holding_period; target_price in 1/100
should_sell_by_holding_period(now, buy_date, current_price, avg_price) ==
    LET holding_days == calculate_holding_days(now, buy_date)
    IN  IF holding_days >= 10
          THEN [should_sell |-> TRUE, sell_type |-> "market", target_price |-> 0]
        ELSE IF holding_days >= 5 /\ current_price >= avg_price
                /\ (current_price - avg_price) * 100 < 3 * avg_price
          THEN [should_sell |-> TRUE, sell_type |-> "market", target_price |-> 0]
        ELSE IF holding_days >= 5 /\ current_price < avg_price
          THEN [should_sell |-> TRUE, sell_type |-> "limit", target_price |-> avg_price * 99]
        ELSE [should_sell |-> FALSE, sell_type |-> "none", target_price |-> 0]

Strategy(sell_type, target_price, profit_rate, reason) ==
    [kind |-> "strategy", action |-> "place_order", sell_type |-> sell_type,
     target_price |-> target_price, profit_rate |-> profit_rate, reason |-> reason]

\* a strategy that looks at the holding period whether or not a sell order
\* is set
get_sell_strategy_holding_only(now, position, buy_date, has_sell_order) ==
    LET holding_strategy == should_sell_by_holding_period(now, buy_date,
                                position.current_price, position.avg_price)
    IN  IF position.avg_price = 0 THEN None
        ELSE IF holding_strategy.should_sell /\ holding_strategy.sell_type = "market"
          THEN Strategy("market", 0, 0, "holding period")
        ELSE IF holding_strategy.should_sell /\ holding_strategy.sell_type = "limit"
          THEN Strategy("limit", holding_strategy.target_price, -100, "holding period")
        ELSE None

\* PositionManager.get_sell_strategy: the order to place, or None; the
\* rate in 1/10000, target_price in 1/100
get_sell_strategy(now, position, buy_date, has_sell_order) ==
    IF ~has_sell_order
      THEN Strategy("limit", position.avg_price * 103, 300, "default take profit")
    ELSE IF position.avg_price = 0 THEN None      \* the division raises, caught
    ELSE
    LET holding_strategy == should_sell_by_holding_period(now, buy_date,
                                position.current_price, position.avg_price)
    IN  IF holding_strategy.should_sell /\ holding_strategy.sell_type = "market"
          THEN Strategy("market", 0, 0, "holding period")
        ELSE IF holding_strategy.should_sell /\ holding_strategy.sell_type = "limit"
          THEN Strategy("limit", holding_strategy.target_price,
                        ((holding_strategy.target_price - position.avg_price * 100) * 10000)
                            \div (position.avg_price * 100),
                        "holding period")
        ELSE None

(***************************************************************************)
(* The trading strategy (src/src/trading/trading_strategy.py)              *)
(***************************************************************************)
MIN_SCORE == 8
\* PROFIT_TARGET, in 1/10000
PROFIT_TARGET == 300

\* a contract record's field, '' (here NoStock, or day -1) when absent
ContractCode(contract_data) ==
    IF "stock_code" \in DOMAIN contract_data THEN contract_data.stock_code ELSE NoStock
ContractDate(contract_data) ==
    IF "date" \in DOMAIN contract_data THEN contract_data.date ELSE -1

\* a date check that takes every disclosure for today's
_is_today_disclosure_any(now, disclosure_date) == TRUE

\* TradingStrategy._is_today_disclosure
_is_today_disclosure(now, disclosure_date) == disclosure_date = Day(now)

Decision(b, reason, score) ==
    [kind |-> "decision", should_buy |-> b, reason |-> reason, score |-> score]

\* TradingStrategy.should_buy: the five gates in their order
should_buy(w, contract_data, analysis_result) ==
    IF ~is_market_open(w.now) THEN {Out(w, Decision(FALSE, "market closed", 0))}
    ELSE IF ~is_trading_hours(w.now, TRUE) THEN {Out(w, Decision(FALSE, "outside trading hours", 0))}
    ELSE IF ~_is_today_disclosure(w.now, ContractDate(contract_data))
      THEN {Out(w, Decision(FALSE, "not today's disclosure", 0))}
    ELSE
    LET score == IF analysis_result = None THEN 0 ELSE analysis_result.recommendation_score
    IN  IF score < MIN_SCORE THEN {Out(w, Decision(FALSE, "score too low", score))}
        ELSE { IF p.r # None
                 THEN Out(p.w, Decision(FALSE, "position held", score))
                 ELSE Out(p.w, Decision(TRUE, "all conditions met", score))
               : p \in get_current_position(w) }

\* the five looks execute_buy_strategy takes at the order, from the
\* attempt-th on; on a full fill the take-profit order and the buy result
RECURSIVE confirm_buy(_, _, _, _)
confirm_buy(w, order_number, stock_code, attempt) ==
    IF attempt >= 5
      THEN {Out(w, ErrorInfo("buy execution check", "confirmation timeout", order_number))}
      ELSE UNION { IF x.r # None /\ x.r.executed
                     THEN { Out(s.w, [kind |-> "buy_result", order_number |-> order_number,
                                      stock_code |-> stock_code,
                                      quantity |-> x.r.executed_quantity,
                                      executed_price |-> x.r.executed_price,
                                      executed_amount |-> x.r.executed_price * x.r.executed_quantity,
                                      buy_time |-> s.w.now,
                                      sell_order_number |->
                                          IF s.r # None THEN s.r.order_number ELSE 0])
                            : s \in place_limit_sell_order(x.w, stock_code, x.r.executed_quantity,
                                                           x.r.executed_price, PROFIT_TARGET) }
                     ELSE confirm_buy(x.w, order_number, stock_code, attempt + 1)
                 : x \in check_order_execution(w, order_number, stock_code) }

\* TradingStrategy.execute_buy_strategy: the buy result, or error_info
execute_buy_strategy(w, stock_code) ==
    UNION { IF o.r # None /\ o.r.kind = "error_info" THEN {Out(o.w, o.r)}
            ELSE IF o.r = None THEN {Out(o.w, ErrorInfo("buy order", "unknown error", 0))}
            ELSE confirm_buy(o.w, o.r.order_number, stock_code, 0)
          : o \in place_market_buy_order(w, stock_code) }

SellResult(action, stock_code, quantity, executed_price, sell_price, reason) ==
    [kind |-> "sell_result", action |-> action, stock_code |-> stock_code,
     quantity |-> quantity, executed_price |-> executed_price,
     sell_price |-> sell_price, reason |-> reason]

\* step 4 of execute_position_management: the order of the strategy is
\* placed, a market sell is looked at once more, a limit sell is not
execute_position_management_order(w, position, strategy) ==
    IF strategy.sell_type = "market"
      THEN UNION { IF s.r = None THEN {Out(s.w, None)}
                   ELSE { IF x.r # None /\ x.r.executed
                            THEN Out(x.w, SellResult("sell_executed", position.stock_code,
                                         position.quantity, x.r.executed_price, 0,
                                         strategy.reason))
                            ELSE Out(x.w, SellResult("order_placed", position.stock_code,
                                         position.quantity, 0, 0, strategy.reason))
                          : x \in check_order_execution(s.w, s.r.order_number,
                                                        position.stock_code) }
                 : s \in place_market_sell_order(w, position.stock_code, position.quantity) }
      ELSE { IF s.r = None THEN Out(s.w, None)
             ELSE Out(s.w, SellResult("order_placed", position.stock_code, position.quantity,
                                      0, s.r.sell_price, strategy.reason))
             : s \in place_limit_sell_order(w, position.stock_code, position.quantity,
                                            position.avg_price, strategy.profit_rate) }

\* TradingStrategy.execute_position_management: what was done about the
\* position, or None
execute_position_management(w, buy_date) ==
    UNION { IF p.r = None THEN {Out(p.w, None)}
            ELSE
            UNION { LET strategy == get_sell_strategy(h.w.now, p.r, buy_date, h.r)
                    IN  IF strategy = None THEN {Out(h.w, None)}
                        ELSE execute_position_management_order(h.w, p.r, strategy)
                  : h \in has_pending_orders(p.w, p.r.stock_code) }
          : p \in get_current_position(w) }

(***************************************************************************)
(* The collaborators of the engine: analysis, notification, persistence    *)
(***************************************************************************)
\* the scores an analysis gives
ScoreSamples == {7, 8}

\* StockAnalyzer.analyze_stock_for_contract: None without a price source, a
\* result with its score, or an exception out of the number parser
analyze_stock_for_contract(contract_data) ==
    {None, Exc("AttributeError")}
        \cup {[kind |-> "analysis", recommendation_score |-> s] : s \in ScoreSamples}

\* a SlackNotifier send_* method: delivered or not, it returns and never raises
Notify(w, what, stock_code) ==
    {Out(Emit(w, Ev("notify", what, stock_code, 0, 0, TRUE)), ok) : ok \in BOOLEAN}

\* the methods the sheets client has for the engine
sheets_methods == {"save_buy_transaction", "update_sell_transaction",
                   "get_latest_buy_transaction"}

\* GoogleSheetsClient.save_buy_transaction: the row appended, or False
save_buy_transaction(w, trade_info) ==
    {Out(Emit(w, Ev("sheet", "save_buy_transaction", trade_info.stock_code, trade_info.quantity,
                    trade_info.executed_price, FALSE)), FALSE),
     Out(Emit([w EXCEPT !.trades = Append(@, [stock_code |-> trade_info.stock_code,
                                              buy_date |-> trade_info.buy_time,
                                              status |-> "held"])],
              Ev("sheet", "save_buy_transaction", trade_info.stock_code, trade_info.quantity,
                 trade_info.executed_price, TRUE)), TRUE)}

\* the rows of a stock that are still held
HeldRows(rows, code) == SelectSeq(rows, LAMBDA r : r.stock_code = code /\ r.status = "held")

\* GoogleSheetsClient.get_latest_buy_transaction: the last held row of the
\* stock, None when there is none or the sheet cannot be read
get_latest_buy_transaction(w, stock_code) ==
    {Out(w, None)} \cup
    (IF HeldRows(w.trades, stock_code) = <<>> THEN {}
     ELSE {Out(w, [kind |-> "trade",
                   buy_date |-> HeldRows(w.trades, stock_code)[Len(HeldRows(w.trades, stock_code))].buy_date])})

\* GoogleSheetsClient.update_sell_transaction: the first held row of the
\* stock marked sold, or False
update_sell_transaction(w, stock_code) ==
    {Out(w, FALSE)} \cup
    (IF HeldRows(w.trades, stock_code) = <<>> THEN {}
     ELSE LET first == CHOOSE i \in 1..Len(w.trades) :
                          /\ w.trades[i].stock_code = stock_code /\ w.trades[i].status = "held"
                          /\ \A j \in 1..(i - 1) :
                                ~(w.trades[j].stock_code = stock_code /\ w.trades[j].status = "held")
          IN  {Out([w EXCEPT !.trades[first].status = "sold"], TRUE)})

\* sheets_client.log_error_to_sheet inside its try: the client has no such
\* method, the AttributeError is caught
log_error_to_sheet(w) ==
    IF "log_error_to_sheet" \notin sheets_methods THEN {Out(w, None)}
    ELSE {Out(Emit(w, Ev("sheet", "log_error_to_sheet", NoStock, 0, 0, TRUE)), None)}

(***************************************************************************)
(* The engine (src/src/trading/auto_trading_system.py)                     *)
(***************************************************************************)
\* a Python bool, returned
Bool(b) == [kind |-> "bool", val |-> b]

\* AutoTradingSystem.__init__: trading_enabled after construction; live is
\* TRADING_MODE == 'LIVE' with the three account settings present
__init__(w, live) ==
    IF ~live THEN {Out(w, FALSE)}
    ELSE UNION { IF a.r THEN {Out(a.w, TRUE)}
                 ELSE UNION { {Out(l.w, FALSE) : l \in log_error_to_sheet(n.w)}
                              : n \in Notify(a.w, "send_critical_error", NoStock) }
               : a \in authenticate(w) }

\* the body of process_new_contract's try: a bool, or the exception raised
process_new_contract_try(w, contract_data) ==
    LET stock_code == ContractCode(contract_data)
        analysed(a) == Emit(w, Ev("analysis", a.kind, stock_code,
                                 IF a.kind = "analysis" THEN a.recommendation_score ELSE 0, 0, TRUE))
    IN  UNION { IF a.kind = "exc" THEN {Out(analysed(a), a)}
                ELSE IF a = None THEN {Out(analysed(a), Bool(FALSE))}
                ELSE
                UNION { IF ~d.r.should_buy THEN {Out(d.w, Bool(FALSE))}
                        ELSE
                        UNION { UNION { IF b.r # None /\ b.r.kind = "error_info"
                                          THEN {Out(n.w, Bool(FALSE))
                                                : n \in Notify(b.w, "send_critical_error", stock_code)}
                                        ELSE IF b.r = None
                                          THEN {Out(n.w, Bool(FALSE))
                                                : n \in Notify(b.w, "send_system_notification", stock_code)}
                                        ELSE UNION { {Out(n.w, Bool(TRUE))
                                                      : n \in Notify(s.w, "send_buy_execution_notification",
                                                                     stock_code)}
                                                   : s \in save_buy_transaction(b.w, b.r) }
                                      : b \in execute_buy_strategy(m.w, stock_code) }
                              : m \in Notify(d.w, "send_buy_start_notification", stock_code) }
                      : d \in should_buy(analysed(a), contract_data, a) }
              : a \in analyze_stock_for_contract(contract_data) }

\* the except clause of process_new_contract: the balance is looked up, the
\* error notified and logged, False returned
process_new_contract_except(w, contract_data) ==
    UNION { UNION { {Out(l.w, Bool(FALSE)) : l \in log_error_to_sheet(n.w)}
                  : n \in Notify(b.w, "send_critical_error", ContractCode(contract_data)) }
          : b \in get_balance(w) }

\* process_new_contract with what its try raises let through
process_new_contract_unguarded(w, enabled, contract_data) ==
    IF ~enabled THEN {Out(w, Bool(FALSE))}
    ELSE process_new_contract_try(w, contract_data)

\* AutoTradingSystem.process_new_contract
process_new_contract(w, enabled, contract_data) ==
    IF ~enabled THEN {Out(w, Bool(FALSE))}
    ELSE UNION { IF t.r.kind = "exc" THEN process_new_contract_except(t.w, contract_data)
                 ELSE {t}
               : t \in process_new_contract_try(w, contract_data) }

\* the buy date manage_positions hands to execute_position_management, as
\* an effect; found tells whether it comes from the trade sheet
BuyDate(stock_code, buy_date, found) ==
    [buy_date |-> buy_date] @@ Ev("buy_date", "execute_position_management", stock_code, 0, 0, found)

\* the body of manage_positions's try
manage_positions_try(w) ==
    UNION { IF p.r = None THEN {Out(p.w, Bool(TRUE))}
            ELSE
            UNION { LET buy_date == IF t.r = None THEN t.w.now ELSE t.r.buy_date
                    IN  UNION { UNION { IF s.r = None THEN {Out(s.w, Bool(TRUE))}
                                        ELSE IF s.r.action = "sell_executed"
                                          THEN UNION { {Out(n.w, Bool(TRUE))
                                                        : n \in Notify(u.w, "send_sell_execution_notification",
                                                                       p.r.stock_code)}
                                                     : u \in update_sell_transaction(s.w, p.r.stock_code) }
                                        ELSE IF s.r.action = "order_placed"
                                          THEN {Out(n.w, Bool(TRUE))
                                                : n \in Notify(s.w, "send_sell_order_notification",
                                                               p.r.stock_code)}
                                        ELSE {Out(s.w, Bool(TRUE))}
                                      : s \in execute_position_management(
                                                  Emit(h.w, BuyDate(p.r.stock_code, buy_date, t.r # None)),
                                                  buy_date) }
                              : h \in has_pending_orders(t.w, p.r.stock_code) }
                  : t \in get_latest_buy_transaction(p.w, p.r.stock_code) }
          : p \in get_current_position(w) }

\* the except clause of manage_positions: the position is looked up, the
\* error notified and logged, False returned
manage_positions_except(w) ==
    UNION { UNION { {Out(l.w, Bool(FALSE)) : l \in log_error_to_sheet(n.w)}
                  : n \in Notify(p.w, "send_critical_error", NoStock) }
          : p \in get_current_position(w) }

\* a manage_positions that does not look at trading_enabled
manage_positions_always(w, enabled) ==
    UNION { IF t.r.kind = "exc" THEN manage_positions_except(t.w) ELSE {t}
          : t \in manage_positions_try(w) }

\* AutoTradingSystem.manage_positions
manage_positions(w, enabled) ==
    IF ~enabled THEN {Out(w, Bool(TRUE))}
    ELSE UNION { IF t.r.kind = "exc" THEN manage_positions_except(t.w) ELSE {t}
               : t \in manage_positions_try(w) }

(***************************************************************************)
(* The engine as a state machine: disclosure events, position ticks, the   *)
(* clock and the broker's fills                                            *)
(***************************************************************************)
\* the run lock's variables while the engine is looked at
LockIdle ==
    /\ lockExists = FALSE
    /\ lockMtime = 0
    /\ lockOwner = 0
    /\ lclock = 0
    /\ lticks = 0
    /\ lpc = [p \in Procs |-> "idle"]
    /\ lage = [p \in Procs |-> 0]

\* the orders the broker accepts in one run
MaxOrders == 2

\* the instants the engine is called at: a Monday's opening, the Thursday
\* ten days on and its next minute
EngineClock == {At(0, 9, 0), At(10, 9, 0), At(10, 9, 1)}
EngineStart == At(0, 9, 0)

\* the contract records of the disclosure events
Contracts(now) ==
    {[stock_code |-> c, date |-> Day(now)] : c \in StockCodes}
        \cup {[stock_code |-> Samsung, date |-> Day(now) - 1], [name |-> "no code"]}

\* the stocks held and the buy orders not filled, before a call
HeldCodes(pos) == {pos[i].stock_code : i \in {j \in 1..Len(pos) : pos[j].quantity > 0}}
OpenBuy(ords) == \E i \in 1..Len(ords) : ords[i].side = "buy" /\ ords[i].filled < ords[i].quantity
Snapshot == [held |-> HeldCodes(positions), open_buy |-> OpenBuy(orders)]

\* a holding whose fill is ten days old or older
StaleHolding(pos, now) ==
    \E i \in 1..Len(pos) : pos[i].quantity > 0 /\ (now - pos[i].fill_time) \div MinutesPerDay >= 10

\* every query of a call reached the broker and was answered
BrokerReached(evs) ==
    \A i \in 1..Len(evs) : evs[i].kind \in {"api", "token", "lost"} => evs[i].ok

\* a market sell of all the shares of a stale holding is among a call's orders
ForcedExitSent(evs, pos, now) ==
    \E i \in 1..Len(evs), j \in 1..Len(pos) :
        /\ pos[j].quantity > 0 /\ (now - pos[j].fill_time) \div MinutesPerDay >= 10
        /\ evs[i].kind = "order" /\ evs[i].what = "sell_market"
        /\ evs[i].stock = pos[j].stock_code /\ evs[i].qty = pos[j].quantity

\* the engine is constructed, the account and the trade sheet empty:
\* AutoTradingSystem.__init__
Init ==
    /\ LockIdle
    /\ LimiterIdle
    /\ clock = EngineStart
    /\ orders = <<>>
    /\ staleTicks = 0
    /\ \E live \in BOOLEAN :
         \E out \in __init__([now |-> EngineStart, access_token |-> FALSE, token_expires_at |-> NoTime,
                              positions |-> <<>>, orders |-> <<>>, trades |-> <<>>,
                              events |-> <<>>, tokenFailed |-> FALSE], live) :
            /\ trading_enabled = out.r
            /\ access_token = out.w.access_token
            /\ token_expires_at = out.w.token_expires_at
            /\ positions = out.w.positions
            /\ trades = out.w.trades
            /\ tokenFailed = out.w.tokenFailed
            /\ last = [NoCall EXCEPT !.op = "__init__", !.ret = Bool(out.r), !.events = out.w.events]

\* what a call leaves of the world
Becomes(w) ==
    /\ access_token' = w.access_token
    /\ token_expires_at' = w.token_expires_at
    /\ positions' = w.positions
    /\ orders' = w.orders
    /\ trades' = w.trades
    /\ tokenFailed' = w.tokenFailed

\* a disclosure event: _save_company_results calls process_new_contract
ProcessNewContract ==
    /\ is_market_open(clock)      \* should_run_dart_scraping()
    /\ Len(orders) < MaxOrders
    /\ \E contract \in Contracts(clock) :
         \E out \in process_new_contract(World, trading_enabled, contract) :
            /\ Becomes(out.w)
            /\ last' = [op |-> "process_new_contract", ret |-> out.r, events |-> out.w.events,
                        inp |-> contract, pre |-> Snapshot]
    /\ staleTicks' = 0
    /\ UNCHANGED <<clock, trading_enabled>>
    /\ UNCHANGED lockVars
    /\ UNCHANGED limiterVars

\* a position tick: _run_with_error_handling calls manage_positions
ManagePositions ==
    /\ is_market_open(clock)
    /\ Len(orders) < MaxOrders
    /\ \E out \in manage_positions(World, trading_enabled) :
         /\ Becomes(out.w)
         /\ last' = [op |-> "manage_positions", ret |-> out.r, events |-> out.w.events,
                     inp |-> None, pre |-> Snapshot]
         /\ staleTicks' = IF /\ is_market_open(clock)
                             /\ StaleHolding(positions, clock)
                             /\ BrokerReached(out.w.events)
                             /\ ~ForcedExitSent(out.w.events, positions, clock)
                            THEN (IF staleTicks < 2 THEN staleTicks + 1 ELSE 2)
                            ELSE 0
    /\ UNCHANGED <<clock, trading_enabled>>
    /\ UNCHANGED lockVars
    /\ UNCHANGED limiterVars

\* time passes
Tick ==
    /\ \E t \in EngineClock : t > clock /\ clock' = t
    /\ last' = NoCall
    /\ UNCHANGED <<trading_enabled, access_token, token_expires_at, positions, orders, trades,
                   tokenFailed, staleTicks>>
    /\ UNCHANGED lockVars
    /\ UNCHANGED limiterVars

\* the broker fills what is left of an order: of a sell order, if the
\* shares are still there
BrokerFill(i) ==
    /\ orders[i].filled < orders[i].quantity
    /\ orders[i].side = "sell" =>
          HeldQuantity(positions, orders[i].stock_code) >= orders[i].quantity - orders[i].filled
    /\ orders' = [orders EXCEPT ![i].filled = orders[i].quantity]
    /\ positions' = IF orders[i].side = "buy"
                      THEN BuyFilled(positions, orders[i].stock_code,
                                     orders[i].quantity - orders[i].filled,
                                     QuoteOf(orders[i].stock_code), clock)
                      ELSE SellFilled(positions, orders[i].stock_code,
                                      orders[i].quantity - orders[i].filled)
    /\ staleTicks' = 0
    /\ last' = NoCall
    /\ UNCHANGED <<clock, trading_enabled, access_token, token_expires_at, trades, tokenFailed>>
    /\ UNCHANGED lockVars
    /\ UNCHANGED limiterVars

Next ==
    \/ ProcessNewContract
    \/ ManagePositions
    \/ Tick
    \/ \E i \in 1..Len(orders) : BrokerFill(i)

Spec == Init /\ [][Next]_vars

\* what a call's effects show
Accepted(evs, order_type) ==
    \E i \in 1..Len(evs) : evs[i].kind = "order" /\ evs[i].what = order_type /\ evs[i].ok
Sent(evs, order_type) ==
    \E i \in 1..Len(evs) : evs[i].kind \in {"order", "lost"} /\ evs[i].what = order_type
FilledInFull(evs, side) ==
    \E i \in 1..Len(evs) : evs[i].kind = "fill" /\ evs[i].what = side /\ evs[i].ok
Notified(evs, what) ==
    \E i \in 1..Len(evs) : evs[i].kind = "notify" /\ evs[i].what = what

(***************************************************************************)
(* Single calls: one method of the strategy or of the order manager is     *)
(* applied to a drawn account, clock and input                             *)
(***************************************************************************)
\* the account holds ten shares, or nothing
HeldTen == [stock_code |-> Samsung, quantity |-> 10, avg_price |-> 48200, fill_time |-> 0]
AccountSamples == {<<>>, <<HeldTen>>}

\* accounts of more than one entry: two holdings, and a sold out holding
\* listed before a holding
HeldFive == [stock_code |-> Hynix, quantity |-> 5, avg_price |-> 47000, fill_time |-> 0]
SoldOut == [stock_code |-> Samsung, quantity |-> 0, avg_price |-> 48200, fill_time |-> 0]
ListedAccounts == {<<HeldFive, HeldTen>>, <<SoldOut, HeldFive>>}

\* the scores and contract records should_buy is called with
GateScores == {0, 7, 8, 10}
GateAnalyses == {None} \cup {[kind |-> "analysis", recommendation_score |-> s] : s \in GateScores}
GateContracts(now) ==
    {[stock_code |-> Samsung, date |-> d] : d \in {Day(now), Day(now) - 1}}
        \cup {[stock_code |-> Samsung]}

CallsInit ==
    /\ LockIdle
    /\ LimiterIdle
    /\ clock \in ClockSamples
    /\ trading_enabled = TRUE
    /\ access_token = TRUE
    /\ token_expires_at \in {clock, clock + 60}     \* due for renewal, or not
    /\ positions \in AccountSamples \cup ListedAccounts
    /\ orders = <<>>
    /\ trades = <<>>
    /\ last = NoCall
    /\ tokenFailed = FALSE
    /\ staleTicks = 0

\* the call returns: what it leaves and what is kept of it
Returned(op, inp, out) ==
    /\ Becomes(out.w)
    /\ last' = [op |-> op, ret |-> out.r, events |-> out.w.events, inp |-> inp, pre |-> Snapshot]
    /\ UNCHANGED <<clock, trading_enabled, staleTicks>>
    /\ UNCHANGED lockVars
    /\ UNCHANGED limiterVars

Call_should_buy ==
    /\ last = NoCall
    /\ \E contract \in GateContracts(clock), analysis \in GateAnalyses :
         \E out \in should_buy(World, contract, analysis) :
            Returned("should_buy",
                     [date |-> ContractDate(contract),
                      score |-> IF analysis = None THEN 0 ELSE analysis.recommendation_score],
                     out)

Call_execute_buy_strategy ==
    /\ last = NoCall
    /\ \E code \in StockCodes :
         \E out \in execute_buy_strategy(World, code) :
            Returned("execute_buy_strategy", [stock_code |-> code], out)

Call_place_market_buy_order ==
    /\ last = NoCall
    /\ \E code \in StockCodes \cup {BadCode} :
         \E out \in place_market_buy_order(World, code) :
            Returned("place_market_buy_order", [stock_code |-> code], out)

Call_place_limit_sell_order ==
    /\ last = NoCall
    /\ \E code \in {Samsung, BadCode}, quantity \in {0, 10}, profit_rate \in {PROFIT_TARGET, -100} :
         \E out \in place_limit_sell_order(World, code, quantity, 48200, profit_rate) :
            Returned("place_limit_sell_order",
                     [stock_code |-> code, quantity |-> quantity, profit_rate |-> profit_rate], out)

Call_place_market_sell_order ==
    /\ last = NoCall
    /\ \E code \in {Samsung, BadCode}, quantity \in {0, 10} :
         \E out \in place_market_sell_order(World, code, quantity) :
            Returned("place_market_sell_order", [stock_code |-> code, quantity |-> quantity], out)

\* a number a method returns
Number(n) == [kind |-> "int", value |-> n]

\* the amounts and prices the quantity is computed of: nothing, less than
\* one share, exact multiples of a price, amounts that cover the commission
\* just and just not
AmountSamples == {0, 5000, 99000, 99017, 99018, 100000, 482000, 482087, 500000}
PriceSamples == {100, 9900, 47000, 48200}

Call__calculate_buy_quantity ==
    /\ last = NoCall
    /\ \E available_amount \in AmountSamples, price \in PriceSamples :
         Returned("_calculate_buy_quantity",
                  [available_amount |-> available_amount, price |-> price],
                  Out(World, Number(_calculate_buy_quantity(available_amount, price))))

\* the buy prices and rates (in 1/10000) the sell price is computed of:
\* targets in every range of the table, on its borders and off the grid
BuyPriceSamples == {900, 970, 971, 4800, 4855, 9700, 9709, 48000, 48200, 48544,
                    97000, 98000, 200000, 485437, 600000}
ProfitRateSamples == {0, 300, 1000}

Call__calculate_sell_price ==
    /\ last = NoCall
    /\ \E buy_price \in BuyPriceSamples, profit_rate \in ProfitRateSamples :
         Returned("_calculate_sell_price",
                  [buy_price |-> buy_price, profit_rate |-> profit_rate],
                  Out(World, Number(_calculate_sell_price(buy_price, profit_rate))))

\* the holdings the sell decision is taken of: how many whole days and how
\* much of a day ago they were bought, at which average price, and the
\* current price (a loss, no change, a gain just below 0.03, of 0.03, above)
HoldingDaySamples == {0, 4, 5, 7, 9, 10, 12}
DayPartSamples == {0, MinutesPerDay - 1}
PricePairSamples ==
    {[avg_price |-> 10000, current_price |-> c] : c \in {9900, 10000, 10299, 10300, 11000}}
      \cup {[avg_price |-> 48200, current_price |-> c] : c \in {47000, 48200, 49645, 49646, 50000}}

Call_should_sell_by_holding_period ==
    /\ last = NoCall
    /\ \E d \in HoldingDaySamples, part \in DayPartSamples, p \in PricePairSamples :
         Returned("should_sell_by_holding_period",
                  [days |-> d, avg_price |-> p.avg_price, current_price |-> p.current_price],
                  Out(World, should_sell_by_holding_period(clock,
                                 clock - (d * MinutesPerDay + part),
                                 p.current_price, p.avg_price)))

\* the position a strategy is asked for, one without a purchase price too
PositionSamples ==
    {[stock_code |-> Samsung, quantity |-> 10, avg_price |-> a, current_price |-> c]
       : a \in {0, 48200}, c \in {47000, 48200, 50000}}

Call_get_sell_strategy ==
    /\ last = NoCall
    /\ \E d \in {0, 5, 10}, position \in PositionSamples, has_sell_order \in BOOLEAN :
         Returned("get_sell_strategy",
                  [days |-> d, position |-> position, has_sell_order |-> has_sell_order],
                  Out(World, get_sell_strategy(clock, position, clock - d * MinutesPerDay,
                                               has_sell_order)))

\* has_pending_orders is asked of an account with no order, and after a
\* limit sell order was placed
Call_has_pending_orders ==
    /\ last.op \in {"none", "place_limit_sell_order"}
    /\ \E code \in StockCodes :
         \E out \in has_pending_orders(World, code) :
            Returned("has_pending_orders", [stock_code |-> code], Out(out.w, Bool(out.r)))

\* check_order_execution is asked of the order a market order call has
\* just placed: nothing, one share or all of it is filled
Call_check_order_execution ==
    /\ last.op \in {"place_market_buy_order", "place_market_sell_order"}
    /\ Accepted(last.events, "buy_market") \/ Accepted(last.events, "sell_market")
    /\ \E out \in check_order_execution(World, Len(orders), orders[Len(orders)].stock_code) :
          Returned("check_order_execution",
                   [order_number |-> Len(orders), stock_code |-> orders[Len(orders)].stock_code],
                   out)

\* process_new_contract is given a contract disclosed today, the day
\* before, or without a date
Call_process_new_contract ==
    /\ last = NoCall
    /\ \E contract \in GateContracts(clock) :
         \E out \in process_new_contract(World, trading_enabled, contract) :
            Returned("process_new_contract", contract, out)

\* place_order is given every order type with and without a quantity and
\* a price (0 stands for no price)
Call_place_order ==
    /\ last = NoCall
    /\ \E code \in {Samsung, BadCode}, order_type \in OrderTypes,
          quantity \in {0, 10}, price \in {0, 48200} :
         \E out \in place_order(World, code, order_type, quantity, price) :
            Returned("place_order",
                     [stock_code |-> code, order_type |-> order_type,
                      quantity |-> quantity, price |-> price], out)

Call_get_current_position_of_account ==
    /\ last = NoCall
    /\ \E out \in get_current_position(World) :
          Returned("get_current_position", None, out)

\* the lock files acquire_lock finds at time LockNow: none, one just
\* written, one of 600 seconds, one of 601 seconds, one far older
LockNow == 2 * LockStaleSeconds
LockFileSamples ==
    {LockFile(FALSE, 0, 0)} \cup
    {LockFile(TRUE, LockNow - age, 1) : age \in {0, LockStaleSeconds, LockStaleSeconds + 1, LockNow}}

\* acquire_lock(lock_file) by process 2, alone
Call_acquire_lock ==
    /\ last = NoCall
    /\ \E file \in LockFileSamples :
         LET out == acquire_lock(file, LockNow, 2)
         IN  /\ lockExists' = out.file.exists
             /\ lockMtime' = out.file.mtime
             /\ lockOwner' = out.file.owner
             /\ lclock' = LockNow
             /\ last' = [op |-> "acquire_lock", ret |-> Bool(out.r), events |-> out.events,
                         inp |-> [file |-> file, now |-> LockNow], pre |-> Snapshot]
    /\ UNCHANGED <<lticks, lpc, lage>>
    /\ UNCHANGED <<clock, trading_enabled, access_token, token_expires_at, positions, orders,
                   trades, tokenFailed, staleTicks>>
    /\ UNCHANGED limiterVars

\* a position tick on the account, and the tick after it
Call_manage_positions ==
    /\ is_market_open(clock)
    /\ \/ last = NoCall
       \/ last.op = "manage_positions" /\ last.inp.tick = 1
    /\ \E out \in manage_positions(World, trading_enabled) :
         Returned("manage_positions", [tick |-> IF last = NoCall THEN 1 ELSE 2], out)

\* the strategies step 4 of execute_position_management is entered with
StrategySamples(position) ==
    {get_sell_strategy(clock, position, buy_date, has_sell_order)
       : buy_date \in {clock, clock - 10 * MinutesPerDay}, has_sell_order \in BOOLEAN} \ {None}

\* execute_position_management from its step 4 on, for the position held
Call_execute_position_management_order ==
    /\ last = NoCall
    /\ \E p \in get_current_position(World) :
         /\ p.r # None
         /\ \E strategy \in StrategySamples(p.r) :
              \E out \in execute_position_management_order(p.w, p.r, strategy) :
                 Returned("execute_position_management", [sell_type |-> strategy.sell_type], out)

CallsNext ==
    \/ Call_should_buy
    \/ Call_execute_buy_strategy
    \/ Call_place_market_buy_order
    \/ Call_place_limit_sell_order
    \/ Call_place_market_sell_order
    \/ Call__calculate_buy_quantity
    \/ Call__calculate_sell_price
    \/ Call_should_sell_by_holding_period
    \/ Call_get_sell_strategy
    \/ Call_has_pending_orders
    \/ Call_check_order_execution
    \/ Call_process_new_contract
    \/ Call_place_order
    \/ Call_get_current_position_of_account
    \/ Call_execute_position_management_order
    \/ Call_acquire_lock
    \/ Call_manage_positions

SpecCalls == CallsInit /\ [][CallsNext]_vars

(***************************************************************************)
(* The rate limiter as a state machine: wait_if_needed is called at any    *)
(* time from a second before a midnight to two seconds after it            *)
(***************************************************************************)
\* the calls of the limiter that are admitted in one run
MaxAdmitted == 6

LimiterStart == TicksPerDay - TicksPerSecond
LimiterEnd == TicksPerDay + 2 * TicksPerSecond

LimiterInit ==
    /\ LockIdle
    /\ EngineIdle
    /\ rclock = LimiterStart
    /\ rate_limiter = APIRateLimiter(LimiterStart)
    /\ admitted = <<>>

\* the limiter before a call
LimiterSnapshot == [rate_limiter |-> rate_limiter, rclock |-> rclock, admitted |-> admitted]

\* rate_limiter.wait_if_needed()
Call_wait_if_needed ==
    /\ Len(admitted) < MaxAdmitted
    /\ \E wt \in wait_if_needed(rate_limiter, rclock) :
         /\ rate_limiter' = wt.rl
         /\ rclock' = wt.now
         /\ admitted' = IF wt.r = None THEN Append(admitted, wt.now) ELSE admitted
         /\ last' = [op |-> "wait_if_needed", ret |-> wt.r,
                     events |-> <<WaitEv(wt.r = None, wt.slept)>>, inp |-> None,
                     pre |-> LimiterSnapshot]
    /\ UNCHANGED <<clock, trading_enabled, access_token, token_expires_at, positions, orders,
                   trades, tokenFailed, staleTicks>>
    /\ UNCHANGED lockVars

\* time passes
LimiterTick ==
    /\ rclock < LimiterEnd
    /\ rclock' = rclock + 1
    /\ last' = NoCall
    /\ UNCHANGED <<clock, trading_enabled, access_token, token_expires_at, positions, orders,
                   trades, tokenFailed, staleTicks, rate_limiter, admitted>>
    /\ UNCHANGED lockVars

LimiterNext ==
    \/ Call_wait_if_needed
    \/ LimiterTick

SpecLimiter == LimiterInit /\ [][LimiterNext]_vars

(***************************************************************************)
(* Single calls of the client: the request loop, an operation or           *)
(* authenticate is applied to a drawn limiter and token                    *)
(***************************************************************************)
ClientStart == TicksPerDay - TicksPerSecond

\* the limiter as earlier calls left it: unused; with calls of this second,
\* one of them or all short of the daily ceiling; at the ceiling; at the
\* ceiling of the day before
LimiterSamples(now) ==
    {APIRateLimiter(now),
     [call_timestamps |-> <<now - 1>>, daily_call_count |-> max_calls_per_day - 1,
      last_reset_date |-> Date(now)],
     [call_timestamps |-> [i \in 1..max_calls_per_second |-> now - 1],
      daily_call_count |-> max_calls_per_second, last_reset_date |-> Date(now)],
     [call_timestamps |-> <<>>, daily_call_count |-> max_calls_per_day,
      last_reset_date |-> Date(now)],
     [call_timestamps |-> <<>>, daily_call_count |-> max_calls_per_day,
      last_reset_date |-> Date(now) - 1]}

ClientInit ==
    /\ LockIdle
    /\ rclock = ClientStart
    /\ rate_limiter \in LimiterSamples(ClientStart)
    /\ admitted = <<>>
    /\ clock = ClientStart \div TicksPerMinute
    /\ trading_enabled = TRUE
    /\ \/ access_token = FALSE /\ token_expires_at = NoTime
       \/ access_token = TRUE /\ token_expires_at \in {clock, clock + 60}
    /\ positions \in AccountSamples
    /\ orders = <<>>
    /\ trades = <<>>
    /\ last = NoCall
    /\ tokenFailed = FALSE
    /\ staleTicks = 0

\* what a call of the client leaves of the token and the limiter
ClientLeaves(w) ==
    /\ access_token' = w.access_token
    /\ token_expires_at' = w.token_expires_at
    /\ tokenFailed' = w.tokenFailed
    /\ rate_limiter' = w.rate_limiter
    /\ rclock' = w.rnow
    /\ admitted' = w.admitted
    /\ clock' = w.rnow \div TicksPerMinute
    /\ UNCHANGED <<trading_enabled, positions, orders, trades, staleTicks>>
    /\ UNCHANGED lockVars

\* the limiter, the token and the time before a call of the client
ClientSnapshot ==
    LimiterSnapshot @@ [access_token |-> access_token, token_expires_at |-> token_expires_at,
                        now |-> clock]

\* a call of the client returns: what it leaves and what is kept of it
ClientReturned(op, out) ==
    /\ ClientLeaves(out.w)
    /\ last' = [op |-> op, ret |-> out.r, events |-> out.w.events, inp |-> None,
                pre |-> ClientSnapshot]

\* _request_with_retry(method, url)
Call__request_with_retry ==
    /\ last = NoCall
    /\ \E out \in _request_with_retry_from(ClientWorld, 0) :
         ClientReturned("_request_with_retry", out)

\* get_balance(), get_positions(), get_current_price(code), place_order(...)
Call_api_operation ==
    /\ last = NoCall
    /\ \E op \in ApiOperations :
         \E out \in api_operation(ClientWorld, op) :
            ClientReturned(op, out)

\* authenticate()
Call_authenticate ==
    /\ last = NoCall
    /\ \E out \in authenticate(ClientWorld) :
         ClientReturned("authenticate", [out EXCEPT !.r = Bool(out.r)])

\* codes that are no six digits: empty, too short, too long, with a letter
MalformedCodes == {<<>>, BadCode, <<"0", "0", "5", "9", "3", "0", "0">>,
                   <<"0", "0", "5", "9", "3", "A">>}

\* get_current_price(stock_code), the limiter and the token kept as they
\* were before the call
Call_get_current_price ==
    /\ last = NoCall
    /\ \E code \in StockCodes \cup MalformedCodes :
         \E out \in get_current_price_requests(ClientWorld, code) :
            /\ ClientLeaves(out.w)
            /\ last' = [op |-> "get_current_price", ret |-> out.r, events |-> out.w.events,
                        inp |-> [stock_code |-> code],
                        pre |-> ClientSnapshot]

\* get_current_position(), and once more right after a call of it that
\* returned the position: the account and the broker's book are the same
Call_get_current_position ==
    /\ \/ last = NoCall
       \/ last.op = "get_current_position" /\ last.inp.call = 1 /\ last.ret # None
    /\ \E out \in get_current_position_requests(ClientWorld) :
          /\ ClientLeaves(out.w)
          /\ last' = [op |-> "get_current_position", ret |-> out.r, events |-> out.w.events,
                      inp |-> IF last = NoCall THEN [call |-> 1, first |-> None]
                                               ELSE [call |-> 2, first |-> last.ret],
                      pre |-> ClientSnapshot]

\* place_order(stock_code, 'buy_market' or 'buy_limit', quantity, price)
Call_place_order_requests ==
    /\ last = NoCall
    /\ \E order_type \in {"buy_market", "buy_limit"} :
         \E out \in place_order_requests(ClientWorld, Samsung, order_type, 10, 48200) :
            /\ access_token' = out.w.access_token
            /\ token_expires_at' = out.w.token_expires_at
            /\ tokenFailed' = out.w.tokenFailed
            /\ rate_limiter' = out.w.rate_limiter
            /\ rclock' = out.w.rnow
            /\ admitted' = out.w.admitted
            /\ clock' = out.w.rnow \div TicksPerMinute
            /\ orders' = out.w.orders
            /\ positions' = out.w.positions
            /\ last' = [op |-> "place_order", ret |-> out.r, events |-> out.w.events,
                        inp |-> [order_type |-> order_type], pre |-> ClientSnapshot]
    /\ UNCHANGED <<trading_enabled, trades, staleTicks>>
    /\ UNCHANGED lockVars

\* the state of the session at a time: no token or no expiry held, the
\* time at or past token_expires_at, or neither
SessionState(token, expires_at, now) ==
    IF ~token \/ expires_at = NoTime THEN "Unauthenticated"
    ELSE IF now >= expires_at THEN "Expired"
    ELSE "Authenticated"

\* the calls of one session, and the minutes that pass before a call
MaxSessionCalls == 3
SessionWaits == {0, 60, TokenLifetime}

\* _ensure_authenticated(), some time after the call before it
Call__ensure_authenticated ==
    /\ \/ last = NoCall
       \/ last.op = "_ensure_authenticated" /\ last.inp.call < MaxSessionCalls
    /\ \E d \in SessionWaits :
         LET w == [ClientWorld EXCEPT !.now = clock + d, !.rnow = rclock + d * TicksPerMinute]
         IN  \E out \in _ensure_authenticated(w) :
                /\ ClientLeaves(out.w)
                /\ last' = [op |-> "_ensure_authenticated", ret |-> out.r,
                            events |-> out.w.events,
                            inp |-> IF last = NoCall
                                      THEN [call |-> 1, before |-> "none"]
                                      ELSE [call |-> last.inp.call + 1,
                                            before |-> SessionState(last.pre.access_token,
                                                                    last.pre.token_expires_at,
                                                                    last.pre.now)],
                            pre |-> [ClientSnapshot EXCEPT !.now = clock + d]]

ClientNext ==
    \/ Call__request_with_retry
    \/ Call_api_operation
    \/ Call_authenticate
    \/ Call_get_current_price
    \/ Call_get_current_position
    \/ Call__ensure_authenticated
    \/ Call_place_order_requests

SpecClient == ClientInit /\ [][ClientNext]_vars

(***************************************************************************)
(* Claims                                                                  *)
(***************************************************************************)

\* C1: no two invocations are between a successful acquire_lock and their
\* release_lock at the same time (no two runs of the engine overlap).
C1_NoTwoRunsOverlap ==
    \A p \in Procs : \A q \in Procs :
        (lpc[p] = "run" /\ lpc[q] = "run") => p = q

\* C2: the account holds at most one open position, and no market buy
\* order is dispatched by process_new_contract while a position is held or
\* a buy order dispatched earlier is accepted but not yet filled.
C2_AtMostOnePosition ==
    /\ Cardinality(HeldCodes(positions)) <= 1
    /\ (last.op = "process_new_contract" /\ Sent(last.events, "buy_market"))
          => (last.pre.held = {} /\ ~last.pre.open_buy)

\* C3: should_buy answers should_buy = true exactly when today is a
\* market-open day, the time is within 09:00-15:20, the disclosure date is
\* today, the score (0 without an analysis) is at least MIN_SCORE and the
\* account holds no position.
C3_ShouldBuyIffFiveGates ==
    last.op = "should_buy" =>
        (last.ret.should_buy <=>
            /\ is_trading_day(Day(clock))
            /\ 9 * 60 <= Tod(clock) /\ Tod(clock) <= 15 * 60 + 20
            /\ last.inp.date = Day(clock)
            /\ last.inp.score >= 8
            /\ last.pre.held = {})

\* C4: when the five buy gates pass and the broker accepts the market buy
\* order and fills it in full, process_new_contract dispatches exactly one
\* market buy order, then the take-profit limit sell at the tick-rounded
\* +3% price, then saves the buy transaction, then sends the buy-executed
\* notification, and returns true.
C4_EndToEndBuy ==
    ( /\ last.op = "process_new_contract"
      /\ is_trading_day(Day(clock))
      /\ 9 * 60 <= Tod(clock) /\ Tod(clock) <= 15 * 60 + 20
      /\ ContractDate(last.inp) = Day(clock)
      /\ Len(last.events) > 0
      /\ last.events[1].kind = "analysis" /\ last.events[1].qty >= 8
      /\ last.pre.held = {}
      /\ Accepted(last.events, "buy_market")
      /\ FilledInFull(last.events, "buy") )
    => ( /\ last.ret = Bool(TRUE)
         /\ Cardinality({i \in 1..Len(last.events) :
                            last.events[i].kind \in {"order", "lost"}
                            /\ last.events[i].what = "buy_market"}) = 1
         /\ \E b, f, s, t, n \in 1..Len(last.events) :
               /\ b < f /\ f < s /\ s < t /\ t < n
               /\ last.events[b].kind = "order" /\ last.events[b].what = "buy_market"
               /\ last.events[f].kind = "fill" /\ last.events[f].what = "buy"
               /\ last.events[s].kind \in {"order", "lost"} /\ last.events[s].what = "sell_limit"
               /\ last.events[s].qty = last.events[f].qty
               /\ last.events[s].price = _calculate_sell_price(last.events[f].price, 300)
               /\ last.events[t].kind = "sheet" /\ last.events[t].what = "save_buy_transaction"
               /\ last.events[n].kind = "notify"
               /\ last.events[n].what = "send_buy_execution_notification" )

\* C5: whenever the broker accepts the order, place_market_buy_order,
\* place_limit_sell_order and place_market_sell_order return a success
\* outcome that carries the broker's order number.
C5_AcceptedOrderReturnsNumber ==
    ( /\ last.op \in {"place_market_buy_order", "place_limit_sell_order", "place_market_sell_order"}
      /\ \E i \in 1..Len(last.events) : last.events[i].kind = "order" /\ last.events[i].ok )
    => ( /\ last.ret.kind \in {"buy_order", "sell_order"}
         /\ last.ret.order_number = Len(orders) )

\* C6: a held position whose fill is ten or more days old does not outlast
\* two consecutive manage_positions ticks, run with the market open and the
\* broker answering, without a market sell order for its full quantity.
C6_ForcedExitWithinTwoTicks ==
    staleTicks < 2

\* C7: when the buy order of execute_buy_strategy is filled in full, a
\* limit sell order for the filled quantity at +3% of the fill price,
\* snapped down to the tick, is dispatched before the call returns, and
\* the call returns the buy result.
C7_ProtectiveSellAfterFill ==
    (last.op = "execute_buy_strategy" /\ FilledInFull(last.events, "buy"))
    => ( /\ last.ret.kind = "buy_result"
         /\ \E f, s \in 1..Len(last.events) :
               /\ f < s
               /\ last.events[f].kind = "fill" /\ last.events[f].what = "buy"
               /\ last.events[s].kind \in {"order", "lost"} /\ last.events[s].what = "sell_limit"
               /\ last.events[s].qty = last.events[f].qty
               /\ last.events[s].price = _calculate_sell_price(last.events[f].price, 300) )

\* C8: when the broker accepted the buy order but it is filled in part or
\* not at all when the polling ends, process_new_contract sends no
\* critical-error notification for it.
C8_UnconfirmedBuyIsNoError ==
    ( /\ last.op = "process_new_contract"
      /\ Accepted(last.events, "buy_market")
      /\ ~FilledInFull(last.events, "buy") )
    => ~Notified(last.events, "send_critical_error")

\* C9: process_new_contract and manage_positions return a boolean, and
\* raise nothing, whatever the broker, the analysis, the trade sheet and
\* the notifier do and whatever the contract record holds.
C9_HandlersReturnBool ==
    last.op \in {"process_new_contract", "manage_positions"} => last.ret.kind = "bool"

\* C9 witness: the analysis raised inside process_new_contract, the except
\* clause reported it and the call returned False.
C9_Witness ==
    /\ last.op = "process_new_contract"
    /\ Len(last.events) > 0
    /\ last.events[1].kind = "analysis" /\ last.events[1].what = "exc"
    /\ Notified(last.events, "send_critical_error")
    /\ last.ret = Bool(FALSE)

\* C10: once a token request has failed, trading_enabled is false.
C10_TokenFailureDisablesTrading ==
    tokenFailed => ~trading_enabled

\* the requests a call sent, in order
HttpEvents(evs) == SelectSeq(evs, LAMBDA e : e.kind = "http")
FailedAttempt(e) == e.outcome \in {"timeout", "error", "5xx"}

\* C11: an API operation sends at most 3 HTTP requests; a request follows
\* another only when that one ended in a timeout, a transport error or a
\* 5xx response; a response below 500 is the operation's last request and
\* is what the request loop returns; after a third failed attempt the
\* request loop raises and the operation returns its error result, None.
C11_RetryPolicy ==
    last.op \in {"_request_with_retry"} \cup ApiOperations =>
        LET h == HttpEvents(last.events)
        IN  /\ Len(h) <= 3
            /\ \A i \in 1..Len(h) : h[i].attempt = i
            /\ \A i \in 1..Len(h) : i < Len(h) => FailedAttempt(h[i])
            /\ \A i \in 1..Len(h) :
                  ~FailedAttempt(h[i]) =>
                     /\ i = Len(h)
                     /\ last.op = "_request_with_retry" => last.ret = Response(h[i].outcome)
            /\ (Len(h) = 3 /\ FailedAttempt(h[3])) =>
                  IF last.op = "_request_with_retry"
                    THEN last.ret.kind = "exc"
                    ELSE last.ret = None

\* C11 witness: three requests were sent, each failed, and the request
\* loop raised.
C11_Witness ==
    /\ last.op = "_request_with_retry"
    /\ Len(HttpEvents(last.events)) = 3
    /\ \A i \in 1..3 : FailedAttempt(HttpEvents(last.events)[i])
    /\ last.ret.kind = "exc"

\* the calls admitted in the second that ends at time t
AdmittedInWindow(t) == {i \in 1..Len(admitted) : t - TicksPerSecond < admitted[i] /\ admitted[i] <= t}

\* C12: at no time were more than max_calls_per_second calls of
\* wait_if_needed admitted within the trailing second.
C12_PerSecondCeiling ==
    \A j \in 1..Len(admitted) :
        Cardinality(AdmittedInWindow(admitted[j])) <= max_calls_per_second

\* C12 witness: with the second's window full, wait_if_needed slept and
\* then admitted the call.
C12_Witness ==
    /\ last.op = "wait_if_needed"
    /\ last.ret = None
    /\ last.events[1].slept > 0
    /\ Len(last.pre.rate_limiter.call_timestamps) >= max_calls_per_second
    /\ Len(admitted) > max_calls_per_second

\* the calls admitted on the calendar date d
AdmittedOnDate(d) == {i \in 1..Len(admitted) : Date(admitted[i]) = d}

\* C13: on no calendar date are more than max_calls_per_day calls of
\* wait_if_needed admitted, and the first call on a new date resets the
\* daily counter before the ceiling is checked, so that it is admitted.
C13_PerDayCeiling ==
    /\ \A j \in 1..Len(admitted) :
          Cardinality(AdmittedOnDate(Date(admitted[j]))) <= max_calls_per_day
    /\ (last.op = "wait_if_needed" /\ Date(last.pre.rclock) # last.pre.rate_limiter.last_reset_date)
          => (last.ret = None /\ rate_limiter.daily_call_count = 1)

\* the daily ceiling is reached when the call begins
AtDailyCeiling(pre) ==
    /\ pre.rate_limiter.last_reset_date = Date(pre.rclock)
    /\ pre.rate_limiter.daily_call_count >= max_calls_per_day

\* C14: with the daily ceiling reached, wait_if_needed raises at once: it
\* does not sleep and leaves the window of timestamps and the daily counter
\* as they were; the request loop calls it once and does not retry; the
\* operation sends none of its requests, the loop raises and the operation
\* returns None.
C14_DailyCeilingIsFatal ==
    (last.op \in {"_request_with_retry"} \cup ApiOperations /\ AtDailyCeiling(last.pre)) =>
        /\ rate_limiter = last.pre.rate_limiter
        /\ rclock = last.pre.rclock
        /\ admitted = last.pre.admitted
        /\ HttpEvents(last.events) = <<>>
        /\ Len(SelectSeq(last.events, LAMBDA e : e.kind = "wait")) <= 1
        /\ \A i \in 1..Len(last.events) :
              last.events[i].kind = "wait" => (~last.events[i].ok /\ last.events[i].slept = 0)
        /\ IF last.op = "_request_with_retry" THEN last.ret.kind = "exc" ELSE last.ret = None

\* C14 witness: an operation with a valid token met the daily ceiling: the
\* limiter was called once and raised, and the operation returned None.
C14_Witness ==
    /\ last.op \in ApiOperations
    /\ AtDailyCeiling(last.pre)
    /\ last.events = <<WaitEv(FALSE, 0)>>
    /\ last.ret = None

\* C15: every HTTP request the client sends to the broker, a request of
\* the request loop or a token request of authenticate, directly follows
\* a call of wait_if_needed that returned normally.
C15_EveryRequestWaits ==
    \A i \in 1..Len(last.events) :
        last.events[i].kind \in {"http", "token"} =>
            /\ i > 1
            /\ last.events[i - 1].kind = "wait"
            /\ last.events[i - 1].ok


\* where a call's effects show an answered query, and a buy order handed to
\* the broker (answered, refused or lost on the way)
AnsweredAt(evs, what) ==
    {i \in 1..Len(evs) : evs[i].kind = "api" /\ evs[i].what = what /\ evs[i].ok}
BuySentAt(evs) ==
    {k \in 1..Len(evs) : evs[k].kind \in {"order", "lost"} /\ evs[k].what = "buy_market"}
\* q shares at price p with the commission on them cost no more than the amount
Affordable(q, p, amount) ==
    q * p + (q * p * COMMISSION_RATE + 99999) \div 100000 <= amount

C17_LargestAffordableQuantity ==
    last.op = "_calculate_buy_quantity" =>
      LET amount == last.inp.available_amount
          price == last.inp.price
          q == last.ret.value
      IN  /\ q >= 0
          /\ Affordable(q, price, amount)
          /\ \A r \in 0..(amount \div price + 1) : Affordable(r, price, amount) => r <= q
          /\ (amount = 100000 /\ price = 9900) => q = 10

\* 99,000 at 9,900 buy nine shares: the tenth share's price is covered,
\* its commission is not
C17_Witness ==
    /\ last.op = "_calculate_buy_quantity"
    /\ last.inp = [available_amount |-> 99000, price |-> 9900]
    /\ last.ret = Number(9)

C19_HoldingPeriodDecision ==
    last.op = "should_sell_by_holding_period" =>
      LET d == last.inp.days
          avg == last.inp.avg_price
          cur == last.inp.current_price
          flat == cur >= avg /\ (cur - avg) * 100 < 3 * avg     \* 0 <= r < 0.03
          loss == cur < avg                                     \* r < 0
          market == last.ret.should_sell /\ last.ret.sell_type = "market"
          limit == /\ last.ret.should_sell /\ last.ret.sell_type = "limit"
                   /\ last.ret.target_price = avg * 99           \* in 1/100
          hold == ~last.ret.should_sell
      IN  IF d >= 10 THEN market
          ELSE IF d >= 5 /\ flat THEN market
          ELSE IF d >= 5 /\ loss THEN limit
          ELSE hold

\* nine days and most of a tenth, at a gain of exactly 0.03: a hold
C19_Witness ==
    /\ last.op = "should_sell_by_holding_period"
    /\ last.inp = [days |-> 9, avg_price |-> 10000, current_price |-> 10300]
    /\ ~last.ret.should_sell

\* C20: get_sell_strategy returns a limit sell at average * 1.03 whenever
\* has_sell_order is false, whatever the holding period and the price; when
\* has_sell_order is true it returns the decision of
\* should_sell_by_holding_period, a hold being no action.
C20_SellStrategy ==
    last.op = "get_sell_strategy" =>
      LET position == last.inp.position
          decision == should_sell_by_holding_period(clock, clock - last.inp.days * MinutesPerDay,
                                                    position.current_price, position.avg_price)
      IN  /\ ~last.inp.has_sell_order =>
                /\ last.ret # None
                /\ last.ret.action = "place_order" /\ last.ret.sell_type = "limit"
                /\ last.ret.target_price = position.avg_price * 103     \* in 1/100
          /\ (last.inp.has_sell_order /\ position.avg_price > 0) =>
                IF ~decision.should_sell THEN last.ret = None
                ELSE /\ last.ret # None
                     /\ last.ret.action = "place_order"
                     /\ last.ret.sell_type = decision.sell_type
                     /\ decision.sell_type = "limit" => last.ret.target_price = decision.target_price

\* ten days held and no sell order set: the default take-profit order
C20_Witness ==
    /\ last.op = "get_sell_strategy"
    /\ last.inp.days = 10 /\ ~last.inp.has_sell_order /\ last.inp.position.avg_price = 48200
    /\ last.ret # None
    /\ last.ret.sell_type = "limit"

\* the broker holds an order for the stock that is not filled in full
Unfilled(ords, code) ==
    \E i \in 1..Len(ords) : ords[i].stock_code = code /\ ords[i].filled < ords[i].quantity

\* C21: has_pending_orders(stock_code) returns true exactly when the
\* broker holds an unfilled order for that stock.
C21_PendingOrdersDetected ==
    last.op = "has_pending_orders" =>
      (last.ret.val <=> Unfilled(orders, last.inp.stock_code))

\* the looks at the order's status a call has taken
Polls(evs) == {i \in 1..Len(evs) : evs[i].kind = "poll"}

\* C22: check_order_execution returns executed=true with the filled
\* quantity and price when the order is filled in full, executed=false
\* with the nonzero executed quantity when it is filled in part.
C22_ExecutionReported ==
    last.op = "check_order_execution" =>
      LET order == orders[last.inp.order_number]
      IN  order.filled > 0 =>
            /\ last.ret # None
            /\ last.ret.kind = "execution"
            /\ last.ret.executed = (order.filled = order.quantity)
            /\ last.ret.executed_quantity = order.filled

FirstFailingGate(now, date, score, held) ==
    IF ~is_trading_day(Day(now)) THEN "market closed"
    ELSE IF ~(9 * 60 <= Tod(now) /\ Tod(now) <= 15 * 60 + 20) THEN "outside trading hours"
    ELSE IF date # Day(now) THEN "not today's disclosure"
    ELSE IF score < 8 THEN "score too low"
    ELSE IF held # {} THEN "position held"
    ELSE ""

\* C24: when one or more gates fail, should_buy returns should_buy = false
\* with the reason of the first failing gate in the order 1..5 and with
\* score 0, and evaluates no later gate: the broker is asked for the
\* position only when gates 1-4 passed.
C24_FirstFailingGate ==
    last.op = "should_buy" =>
      LET failing == FirstFailingGate(clock, last.inp.date, last.inp.score, last.pre.held)
      IN  /\ failing # "" =>
                /\ ~last.ret.should_buy
                /\ last.ret.reason = failing
                /\ last.ret.score = 0
          /\ failing \in {"market closed", "outside trading hours",
                           "not today's disclosure", "score too low"}
                => last.events = <<>>

\* an order of any kind was handed to the broker
AnyOrderSent(evs) == \E i \in 1..Len(evs) : evs[i].kind \in {"order", "lost"}

\* C25: for every contract whose disclosure date is not today's date,
\* process_new_contract hands no order to the broker, whatever the score,
\* the market state and the position.
C25_StaleDisclosureNeverBought ==
    (last.op = "process_new_contract" /\ ContractDate(last.inp) # Day(clock))
        => ~AnyOrderSent(last.events)

\* a contract of the day before, scored 8, on a trading day inside the buy
\* window and with an empty account: refused
C25_Witness ==
    /\ last.op = "process_new_contract"
    /\ ContractDate(last.inp) = Day(clock) - 1
    /\ is_trading_hours(clock, TRUE)
    /\ last.pre.held = {}
    /\ \E i \in 1..Len(last.events) :
          last.events[i].kind = "analysis" /\ last.events[i].qty >= MIN_SCORE
    /\ last.ret = Bool(FALSE)

\* C26: place_order sends an order request only if quantity > 0 and a
\* price is given exactly when the order is a limit order; a rejected call
\* returns None and makes no token request and no order request.
C26_OrderInputsValidated ==
    last.op = "place_order" =>
      LET limit == last.inp.order_type \in {"buy_limit", "sell_limit"}
          priced == last.inp.price # 0
          valid == last.inp.quantity > 0 /\ (priced <=> limit)
      IN  ~valid => (last.ret = None /\ last.events = <<>>)

\* exactly six characters, each a decimal digit
SixDigits(code) == Len(code) = 6 /\ \A i \in 1..6 : code[i] \in Digits

OrdersSentAt(evs) == {i \in 1..Len(evs) : evs[i].kind \in {"order", "lost"}}

BrokerAnswered(evs) ==
    \A i \in 1..Len(evs) : evs[i].kind \in {"token", "http", "body"} => evs[i].ok

\* C29: a second get_current_position right after a first one, with no
\* order in between, the account unchanged and the broker answering,
\* returns the position data the first returned: the first call changes
\* no state of the session or of the limiter that changes the second's
\* result.
C29_PositionQueryRepeatable ==
    ( /\ last.op = "get_current_position"
      /\ last.inp.call = 2
      /\ BrokerAnswered(last.events) )
    => last.ret = last.inp.first

\* where the account lists a holding with a quantity above 0
HeldAt(pos) == {j \in 1..Len(pos) : pos[j].quantity > 0}

\* C30: of the entries the broker reports, get_current_position returns
\* the first one with a nonzero quantity, in the broker's order, and
\* ignores the rest; an entry with quantity 0 is never returned.
C30_FirstHeldPosition ==
    last.op = "get_current_position" =>
      /\ last.ret # None =>
            /\ HeldAt(positions) # {}
            /\ LET first == CHOOSE j \in HeldAt(positions) : \A k \in HeldAt(positions) : j <= k
               IN  /\ last.ret.stock_code = positions[first].stock_code
                   /\ last.ret.quantity = positions[first].quantity
                   /\ last.ret.avg_price = positions[first].avg_price
            /\ last.ret.quantity > 0
      /\ (AnsweredAt(last.events, "get_positions") # {} /\ HeldAt(positions) # {})
            => last.ret # None

\* the broker lists five shares of one stock before ten of another: the
\* five are returned
C30_Witness ==
    /\ last.op = "get_current_position"
    /\ positions = <<HeldFive, HeldTen>>
    /\ last.ret # None
    /\ last.ret.stock_code = Hynix

\* the positions query of a call failed: the token was refused, or the
\* request was not answered
PositionsQueryFailed(evs) ==
    \E i \in 1..Len(evs) :
        /\ ~evs[i].ok
        /\ \/ evs[i].kind = "api" /\ evs[i].what = "get_positions"
           \/ evs[i].kind = "token"

\* C31: a failed positions query is never taken for "no position held":
\* should_buy does not approve a buy when the query of the positions failed.
C31_FailedQueryIsNotEmpty ==
    (last.op = "should_buy" /\ PositionsQueryFailed(last.events)) => ~last.ret.should_buy

\* the token requests and the requests of the session among a call's effects
TokenRequests(evs) == {i \in 1..Len(evs) : evs[i].kind = "token"}
HttpRequests(evs) == {i \in 1..Len(evs) : evs[i].kind = "http"}

FillTimes(pos, code) == {pos[j].fill_time : j \in {k \in 1..Len(pos) : pos[k].stock_code = code}}

\* C33: the buy date manage_positions feeds into the sell strategy is the
\* time of the position's buy fill, so that the holding days of the sell
\* decision are the whole days elapsed since the fill.
C33_BuyDateIsFillTime ==
    last.op = "manage_positions" =>
        \A i \in 1..Len(last.events) :
            last.events[i].kind = "buy_date" =>
                \A t \in FillTimes(positions, last.events[i].stock) :
                    calculate_holding_days(clock, last.events[i].buy_date)
                        = (clock - t) \div MinutesPerDay

\* C34: once the broker has accepted the buy order, execute_buy_strategy
\* looks at the order's status at most 5 times and then returns either the
\* buy result of a filled order or the confirmation timeout.
C34_BuyConfirmationBounded ==
    (last.op = "execute_buy_strategy" /\ Accepted(last.events, "buy_market")) =>
        /\ Cardinality(Polls(last.events)) <= 5
        /\ \/ last.ret.kind = "buy_result"
           \/ last.ret.kind = "error_info" /\ last.ret.error_type = "confirmation timeout"

C37_OrderSentOnce ==
    (last.op = "place_order" /\ "order_type" \in DOMAIN last.inp) =>
        /\ Len(orders) <= 1
        /\ \A i \in HttpRequests(last.events) : last.events[i].attempt = 1

\* the orders of the book that were placed before the call whose effects
\* are evs, and the sell orders among them that are not filled yet
PlacedBefore(ords, evs) ==
    1..(Len(ords) - Cardinality({i \in 1..Len(evs) : evs[i].kind = "order" /\ evs[i].ok}))
PendingSells(ords, among) ==
    {i \in among : ords[i].side = "sell" /\ ords[i].filled < ords[i].quantity}

\* C38: over the position ticks that follow a buy the engine has at most one
\* unfilled sell order at the broker: a tick sends no sell order while a
\* sell order placed earlier is still pending.
C38_OneSellOrderOutstanding ==
    /\ Cardinality(PendingSells(orders, 1..Len(orders))) <= 1
    /\ (last.op = "manage_positions"
          /\ PendingSells(orders, PlacedBefore(orders, last.events)) # {})
       => ~(Sent(last.events, "sell_limit") \/ Sent(last.events, "sell_market"))

\* C39: release_lock removes only the lock file its own process wrote: a
\* process whose lock was reclaimed as stale by a second process never
\* deletes the second process's lock file.
C39_ReleaseOwnLockOnly ==
    [][\A p \in Procs :
          (lpc[p] = "rel_remove" /\ lpc'[p] = "exit" /\ lockExists /\ ~lockExists')
              => lockOwner = p]_vars

\* C40: while trading_enabled is false, process_new_contract returns false
\* and manage_positions returns true without a call of the broker, of the
\* trade sheet or of the notifier, and they leave the token, the account
\* and the sheet as they were; trading_enabled never goes from false to
\* true once the AutoTradingSystem is constructed.
C40_DisabledEngineDoesNothing ==
    [][ /\ ~trading_enabled => ~trading_enabled'
        /\ (~trading_enabled /\ last'.op \in {"process_new_contract", "manage_positions"}) =>
              /\ last'.ret = Bool(last'.op = "manage_positions")
              /\ last'.events = <<>>
              /\ UNCHANGED <<access_token, token_expires_at, positions, orders, trades,
                             tokenFailed>> ]_vars

\* a position tick and a disclosure event of an engine that is not live
C40_Witness ==
    /\ ~trading_enabled
    /\ last.op = "manage_positions"
    /\ last.ret = Bool(TRUE)
    /\ last.events = <<>>

====
